---- MODULE Spec2Model ----
(***************************************************************************)
(* Model of the ASS subtitle parser (class ASSParser) and of its temporal  *)
(* query / navigation engine.                                              *)
(*                                                                         *)
(* Representation.                                                         *)
(*  - A string is a sequence of one-character strings, so that split,      *)
(*    trim, regular-expression matching and case folding are computed      *)
(*    character by character as the code computes them.                    *)
(*  - A subtitle file is held in the variable script as a description     *)
(*    (style table, Format line, dialogue lines); assContent is the text   *)
(*    rendered from it, as the sequence of its lines, i.e. the value of    *)
(*    assContent.split('\n').  parse is also handed values that are not    *)
(*    strings: NoContent has no split method, OwnSplit has one of its own. *)
(*  - A time is an integer count of milliseconds: every timestamp the      *)
(*    grammar accepts has at most three fractional digits, so the decoded  *)
(*    second count is an exact multiple of 1 ms.  The thresholds 1e-3 s,   *)
(*    0.05 s and 0.18 s are 1, 50 and 180.  Rounding of IEEE doubles is    *)
(*    not modelled.                                                        *)
(*  - null is NoValue (-1) for a nullable number; an absent (undefined)    *)
(*    object property is a key that is not in the DOMAIN of the record's   *)
(*    field function.                                                      *)
(***************************************************************************)
EXTENDS Integers, Sequences, FiniteSets, TLC

NoValue == -1

(***************************************************************************)
(* Characters and strings                                                  *)
(***************************************************************************)
Digits == {"0", "1", "2", "3", "4", "5", "6", "7", "8", "9"}

DigitVal == ("0" :> 0 @@ "1" :> 1 @@ "2" :> 2 @@ "3" :> 3 @@ "4" :> 4 @@
             "5" :> 5 @@ "6" :> 6 @@ "7" :> 7 @@ "8" :> 8 @@ "9" :> 9)

\* the characters String.prototype.trim removes and \s matches
WhiteSpace == {" ", "\t", "\n", "\r"}

LowerMap == ("A" :> "a" @@ "B" :> "b" @@ "C" :> "c" @@ "D" :> "d" @@ "E" :> "e" @@
             "F" :> "f" @@ "G" :> "g" @@ "H" :> "h" @@ "I" :> "i" @@ "J" :> "j" @@
             "K" :> "k" @@ "L" :> "l" @@ "M" :> "m" @@ "N" :> "n" @@ "O" :> "o" @@
             "P" :> "p" @@ "Q" :> "q" @@ "R" :> "r" @@ "S" :> "s" @@ "T" :> "t" @@
             "U" :> "u" @@ "V" :> "v" @@ "W" :> "w" @@ "X" :> "x" @@ "Y" :> "y" @@
             "Z" :> "z")

UpperMap == ("a" :> "A" @@ "b" :> "B" @@ "c" :> "C" @@ "d" :> "D" @@ "e" :> "E" @@
             "f" :> "F" @@ "g" :> "G" @@ "h" :> "H" @@ "i" :> "I" @@ "j" :> "J" @@
             "k" :> "K" @@ "l" :> "L" @@ "m" :> "M" @@ "n" :> "N" @@ "o" :> "O" @@
             "p" :> "P" @@ "q" :> "Q" @@ "r" :> "R" @@ "s" :> "S" @@ "t" :> "T" @@
             "u" :> "U" @@ "v" :> "V" @@ "w" :> "W" @@ "x" :> "X" @@ "y" :> "Y" @@
             "z" :> "Z")

toLowerCase(s) == [i \in 1..Len(s) |-> IF s[i] \in DOMAIN LowerMap THEN LowerMap[s[i]] ELSE s[i]]

toUpperCase(s) == [i \in 1..Len(s) |-> IF s[i] \in DOMAIN UpperMap THEN UpperMap[s[i]] ELSE s[i]]

startsWith(s, p) == Len(s) >= Len(p) /\ SubSeq(s, 1, Len(p)) = p

endsWith(s, p) == Len(s) >= Len(p) /\ SubSeq(s, Len(s) - Len(p) + 1, Len(s)) = p

RECURSIVE trimStart(_)
trimStart(s) == IF s # <<>> /\ Head(s) \in WhiteSpace THEN trimStart(Tail(s)) ELSE s

RECURSIVE trimEnd(_)
trimEnd(s) ==
    IF s # <<>> /\ s[Len(s)] \in WhiteSpace THEN trimEnd(SubSeq(s, 1, Len(s) - 1)) ELSE s

trim(s) == trimEnd(trimStart(s))

\* index of the first occurrence of character c in s, 0 when there is none
\* (String.prototype.indexOf + 1)
RECURSIVE IndexFrom(_, _, _)
IndexFrom(s, c, i) ==
    IF i > Len(s) THEN 0 ELSE IF s[i] = c THEN i ELSE IndexFrom(s, c, i + 1)

indexOf(s, c) == IndexFrom(s, c, 1)

\* String.prototype.split(c): the pieces between the occurrences of c
RECURSIVE split(_, _)
split(s, c) ==
    LET k == indexOf(s, c)
    IN  IF k = 0 THEN <<s>>
        ELSE <<SubSeq(s, 1, k - 1)>> \o split(SubSeq(s, k + 1, Len(s)), c)

\* Array.prototype.join(c)
RECURSIVE join(_, _)
join(parts, c) ==
    IF parts = <<>> THEN <<>>
    ELSE IF Len(parts) = 1 THEN parts[1]
    ELSE parts[1] \o <<c>> \o join(Tail(parts), c)

allDigits(s) == \A i \in 1..Len(s) : s[i] \in Digits

\* parseInt of a string of decimal digits
RECURSIVE parseInt(_)
parseInt(s) ==
    IF s = <<>> THEN 0 ELSE parseInt(SubSeq(s, 1, Len(s) - 1)) * 10 + DigitVal[s[Len(s)]]

(***************************************************************************)
(* Timestamp and colour codecs                                             *)
(***************************************************************************)
\* position of the first '.' or ',' of s, 0 when there is none
RECURSIVE FracSepFrom(_, _)
FracSepFrom(s, i) ==
    IF i > Len(s) THEN 0
    ELSE IF s[i] \in {".", ","} THEN i ELSE FracSepFrom(s, i + 1)

\* variant: the fraction is read as a count of milliseconds whatever its length
parseTimestamp_fracMillis(timestamp) ==
    LET p        == FracSepFrom(timestamp, 1)
        main     == IF p = 0 THEN timestamp ELSE SubSeq(timestamp, 1, p - 1)
        fraction == IF p = 0 THEN <<>> ELSE SubSeq(timestamp, p + 1, Len(timestamp))
        fracOk   == p = 0 \/ (Len(fraction) \in 1..3 /\ allDigits(fraction))
        parts    == split(main, ":")
        n        == Len(parts)
        hours    == IF n = 3 THEN parts[1] ELSE <<>>
        minutes  == IF n >= 2 THEN parts[n - 1] ELSE <<>>
        seconds  == IF n >= 2 THEN parts[n] ELSE <<>>
        mainOk   == /\ n \in {2, 3}
                    /\ (n = 3 => (Len(hours) >= 1 /\ allDigits(hours)))
                    /\ Len(minutes) \in 1..2 /\ allDigits(minutes)
                    /\ Len(seconds) = 2 /\ allDigits(seconds)
        h        == IF hours # <<>> THEN parseInt(hours) ELSE 0
        m        == parseInt(minutes)
        s        == parseInt(seconds)
        fracMs   == IF fraction = <<>> THEN 0
                    ELSE parseInt(fraction)
    IN  IF ~(fracOk /\ mainOk) THEN NoValue
        ELSE h * 3600000 + m * 60000 + s * 1000 + fracMs

\* variant: the seconds may have one digit
parseTimestamp_shortSeconds(timestamp) ==
    LET p        == FracSepFrom(timestamp, 1)
        main     == IF p = 0 THEN timestamp ELSE SubSeq(timestamp, 1, p - 1)
        fraction == IF p = 0 THEN <<>> ELSE SubSeq(timestamp, p + 1, Len(timestamp))
        fracOk   == p = 0 \/ (Len(fraction) \in 1..3 /\ allDigits(fraction))
        parts    == split(main, ":")
        n        == Len(parts)
        hours    == IF n = 3 THEN parts[1] ELSE <<>>
        minutes  == IF n >= 2 THEN parts[n - 1] ELSE <<>>
        seconds  == IF n >= 2 THEN parts[n] ELSE <<>>
        mainOk   == /\ n \in {2, 3}
                    /\ (n = 3 => (Len(hours) >= 1 /\ allDigits(hours)))
                    /\ Len(minutes) \in 1..2 /\ allDigits(minutes)
                    /\ Len(seconds) \in 1..2 /\ allDigits(seconds)
        h        == IF hours # <<>> THEN parseInt(hours) ELSE 0
        m        == parseInt(minutes)
        s        == parseInt(seconds)
        fracMs   == IF fraction = <<>> THEN 0
                    ELSE IF Len(fraction) = 3 THEN parseInt(fraction)
                    ELSE IF Len(fraction) = 2 THEN parseInt(fraction) * 10
                    ELSE parseInt(fraction) * 100
    IN  IF ~(fracOk /\ mainOk) THEN NoValue
        ELSE h * 3600000 + m * 60000 + s * 1000 + fracMs

\* /^(?:(\d+):)?(\d{1,2}):(\d{2})(?:[.,](\d{1,3}))?$/ ; the result is in ms
parseTimestamp(timestamp) ==
    LET p        == FracSepFrom(timestamp, 1)
        main     == IF p = 0 THEN timestamp ELSE SubSeq(timestamp, 1, p - 1)
        fraction == IF p = 0 THEN <<>> ELSE SubSeq(timestamp, p + 1, Len(timestamp))
        fracOk   == p = 0 \/ (Len(fraction) \in 1..3 /\ allDigits(fraction))
        parts    == split(main, ":")
        n        == Len(parts)
        hours    == IF n = 3 THEN parts[1] ELSE <<>>
        minutes  == IF n >= 2 THEN parts[n - 1] ELSE <<>>
        seconds  == IF n >= 2 THEN parts[n] ELSE <<>>
        mainOk   == /\ n \in {2, 3}
                    /\ (n = 3 => (Len(hours) >= 1 /\ allDigits(hours)))
                    /\ Len(minutes) \in 1..2 /\ allDigits(minutes)
                    /\ Len(seconds) = 2 /\ allDigits(seconds)
        h        == IF hours # <<>> THEN parseInt(hours) ELSE 0
        m        == parseInt(minutes)
        s        == parseInt(seconds)
        fracMs   == IF fraction = <<>> THEN 0
                    ELSE IF Len(fraction) = 3 THEN parseInt(fraction)
                    ELSE IF Len(fraction) = 2 THEN parseInt(fraction) * 10
                    ELSE parseInt(fraction) * 100
    IN  IF ~(fracOk /\ mainOk) THEN NoValue
        ELSE h * 3600000 + m * 60000 + s * 1000 + fracMs

White == <<"#", "f", "f", "f", "f", "f", "f">>

\* assColor.replace(/^&H/, '') then the pairs at 0..2, 2..4, 4..6
assColorToCSS(assColor) ==
    LET hex == IF startsWith(assColor, <<"&", "H">>)
               THEN SubSeq(assColor, 3, Len(assColor)) ELSE assColor
    IN  IF Len(hex) >= 6
        THEN <<"#">> \o SubSeq(hex, 5, 6) \o SubSeq(hex, 3, 4) \o SubSeq(hex, 1, 2)
        ELSE White

\* text.replace(/\{[^}]*\}/g, ''): remove every span from a '{' to the next '}'
RECURSIVE stripTags(_)
stripTags(s) ==
    IF s = <<>> THEN <<>>
    ELSE IF Head(s) = "{" /\ indexOf(s, "}") # 0
         THEN stripTags(SubSeq(s, indexOf(s, "}") + 1, Len(s)))
         ELSE <<Head(s)>> \o stripTags(Tail(s))

\* .replace(/\\N/g, '\n').replace(/\\n/g, '\n')
RECURSIVE lineBreaks(_)
lineBreaks(s) ==
    IF s = <<>> THEN <<>>
    ELSE IF Len(s) >= 2 /\ s[1] = "\\" /\ s[2] \in {"N", "n"}
         THEN <<"\n">> \o lineBreaks(SubSeq(s, 3, Len(s)))
         ELSE <<Head(s)>> \o lineBreaks(Tail(s))

cleanText(text) == trim(lineBreaks(stripTags(text)))

(***************************************************************************)
(* Objects: an object is a function from property names to string values   *)
(***************************************************************************)
EmptyObj == [k \in {} |-> <<>>]

has(obj, key) == key \in DOMAIN obj

\* obj[key] = value
setProp(obj, key, value) == [k \in DOMAIN obj \cup {key} |-> IF k = key THEN value ELSE obj[k]]

\* a value that is neither undefined nor the empty string
truthyProp(obj, key) == has(obj, key) /\ obj[key] # <<>>

K_Name          == <<"N", "a", "m", "e">>
K_PrimaryColour == <<"P", "r", "i", "m", "a", "r", "y", "C", "o", "l", "o", "u", "r">>
K_Fontsize      == <<"F", "o", "n", "t", "s", "i", "z", "e">>
K_cssColor      == <<"c", "s", "s", "C", "o", "l", "o", "r">>
K_cssFontSize   == <<"c", "s", "s", "F", "o", "n", "t", "S", "i", "z", "e">>
K_Layer         == <<"L", "a", "y", "e", "r">>
K_Start         == <<"S", "t", "a", "r", "t">>
K_End           == <<"E", "n", "d">>
K_Style         == <<"S", "t", "y", "l", "e">>
K_MarginL       == <<"M", "a", "r", "g", "i", "n", "L">>
K_MarginR       == <<"M", "a", "r", "g", "i", "n", "R">>
K_MarginV       == <<"M", "a", "r", "g", "i", "n", "V">>
K_Effect        == <<"E", "f", "f", "e", "c", "t">>
K_Text          == <<"T", "e", "x", "t">>
K_cleanText     == <<"c", "l", "e", "a", "n", "T", "e", "x", "t">>

defaultEventFormat ==
    <<K_Layer, K_Start, K_End, K_Style, K_Name, K_MarginL, K_MarginR, K_MarginV, K_Effect, K_Text>>

(***************************************************************************)
(* Line handlers of parse                                                  *)
(***************************************************************************)
\* /^<label>:/i.test(line), label given in lower case
testLabel(line, label) ==
    /\ Len(line) >= Len(label) + 1
    /\ toLowerCase(SubSeq(line, 1, Len(label))) = label
    /\ line[Len(label) + 1] = ":"

\* line.match(/^<label>\s*:\s*(.*)$/i): <<>> when there is no match, else
\* <<match[1]>>
matchLabel(line, label) ==
    LET n     == Len(label)
        after == trimStart(SubSeq(line, n + 1, Len(line)))
        rest  == trimStart(Tail(after))
    IN  IF /\ Len(line) >= n
           /\ toLowerCase(SubSeq(line, 1, n)) = label
           /\ after # <<>> /\ Head(after) = ":"
           /\ \A i \in 1..Len(rest) : rest[i] \notin {"\n", "\r"}
        THEN <<rest>> ELSE <<>>

L_format   == <<"f", "o", "r", "m", "a", "t">>
L_style    == <<"s", "t", "y", "l", "e">>
L_dialogue == <<"d", "i", "a", "l", "o", "g", "u", "e">>

S_scriptInfo == <<"s", "c", "r", "i", "p", "t", " ", "i", "n", "f", "o">>
S_styles     == <<"v", "4", "+", " ", "s", "t", "y", "l", "e", "s">>
S_events     == <<"e", "v", "e", "n", "t", "s">>

parseScriptInfo(scriptInfo, line) ==
    LET colonIndex == indexOf(line, ":") - 1
    IN  IF colonIndex > 0
        THEN setProp(scriptInfo, trim(SubSeq(line, 1, colonIndex)),
                     trim(SubSeq(line, colonIndex + 2, Len(line))))
        ELSE scriptInfo

\* line.split(':', 2)[1], then split on ',' and trim
parseFormat(line) ==
    LET pieces     == split(line, ":")
        formatPart == IF Len(pieces) >= 2 THEN pieces[2] ELSE <<>>
        fields     == split(formatPart, ",")
    IN  IF formatPart = <<>> THEN <<>>
        ELSE [i \in 1..Len(fields) |-> trim(fields[i])]

\* the loop that copies values[i].trim() under format[i]
RECURSIVE assignFields(_, _, _, _)
assignFields(obj, format, values, i) ==
    IF i > Len(format) \/ i > Len(values) THEN obj
    ELSE assignFields(IF format[i] # <<>> THEN setProp(obj, format[i], trim(values[i])) ELSE obj,
                      format, values, i + 1)

\* Map.prototype.set on the style table, a sequence of objects in insertion
\* order: an existing key keeps its position
RECURSIVE stylesSet(_, _)
stylesSet(styles, style) ==
    IF styles = <<>> THEN <<style>>
    ELSE IF Head(styles)[K_Name] = style[K_Name] THEN <<style>> \o Tail(styles)
    ELSE <<Head(styles)>> \o stylesSet(Tail(styles), style)

parseStyle(styles, line, format) ==
    LET match == matchLabel(line, L_style)
        raw   == assignFields(EmptyObj, format, split(match[1], ","), 1)
        col   == IF truthyProp(raw, K_PrimaryColour)
                 THEN setProp(raw, K_cssColor, assColorToCSS(raw[K_PrimaryColour])) ELSE raw
        style == IF truthyProp(col, K_Fontsize)
                 THEN setProp(col, K_cssFontSize, col[K_Fontsize] \o <<"p", "x">>) ELSE col
    IN  IF match = <<>> THEN styles
        ELSE IF truthyProp(raw, K_Name) THEN stylesSet(styles, style)
        ELSE styles

\* variant: the event part is split at every comma
dialogueValues_splitAll(eventPart, format) ==
    IF Len(format) = 0 THEN <<>> ELSE split(eventPart, ",")

\* the values of a dialogue line: at most Len(format) of them, the commas
\* beyond the last split kept in the final one
dialogueValues(eventPart, format) ==
    LET wanted == Len(format)
        raw    == split(eventPart, ",")
    IN  IF wanted = 0 THEN <<>>
        ELSE IF Len(raw) >= wanted
             THEN SubSeq(raw, 1, wanted - 1) \o <<join(SubSeq(raw, wanted, Len(raw)), ",")>>
             ELSE raw

\* <<>> for undefined, else <<value>>
RECURSIVE getFieldAliases(_, _)
getFieldAliases(obj, aliases) ==
    IF aliases = <<>> THEN <<>>
    ELSE LET a == Head(aliases)
         IN  IF has(obj, a) THEN <<obj[a]>>
             ELSE IF has(obj, toLowerCase(a)) THEN <<obj[toLowerCase(a)]>>
             ELSE IF has(obj, toUpperCase(a)) THEN <<obj[toUpperCase(a)]>>
             ELSE getFieldAliases(obj, Tail(aliases))

getField(obj, key, aliases) ==
    IF has(obj, key) THEN <<obj[key]>>
    ELSE IF has(obj, toLowerCase(key)) THEN <<obj[toLowerCase(key)]>>
    ELSE IF has(obj, toUpperCase(key)) THEN <<obj[toUpperCase(key)]>>
    ELSE getFieldAliases(obj, aliases)

\* variant: the decoded times are not tested against null
parseEvent_noNullCheck(events, line, format) ==
    LET match    == matchLabel(line, L_dialogue)
        props    == assignFields(EmptyObj, format, dialogueValues(match[1], format), 1)
        startStr == getField(props, K_Start, <<>>)
        endStr   == getField(props, K_End, <<>>)
        textStr  == getField(props, K_Text, <<>>)
        start    == parseTimestamp(startStr[1])
        end      == parseTimestamp(endStr[1])
        full     == IF textStr # <<>> THEN setProp(props, K_cleanText, cleanText(textStr[1]))
                    ELSE props
    IN  IF match = <<>> THEN events
        ELSE IF startStr # <<>> /\ startStr[1] # <<>> /\ endStr # <<>> /\ endStr[1] # <<>>
             THEN IF truthyProp(full, K_cleanText)
                  THEN Append(events, [props |-> full, startTime |-> start, endTime |-> end])
                  ELSE events
             ELSE events

\* variant: the clean text is not tested
parseEvent_noTextCheck(events, line, format) ==
    LET match    == matchLabel(line, L_dialogue)
        props    == assignFields(EmptyObj, format, dialogueValues(match[1], format), 1)
        startStr == getField(props, K_Start, <<>>)
        endStr   == getField(props, K_End, <<>>)
        textStr  == getField(props, K_Text, <<>>)
        start    == parseTimestamp(startStr[1])
        end      == parseTimestamp(endStr[1])
        full     == IF textStr # <<>> THEN setProp(props, K_cleanText, cleanText(textStr[1]))
                    ELSE props
    IN  IF match = <<>> THEN events
        ELSE IF startStr # <<>> /\ startStr[1] # <<>> /\ endStr # <<>> /\ endStr[1] # <<>>
             THEN IF start # NoValue /\ end # NoValue
                  THEN Append(events, [props |-> full, startTime |-> start, endTime |-> end])
                  ELSE events
             ELSE events

\* an event is its string properties plus the two decoded times
parseEvent(events, line, format) ==
    LET match    == matchLabel(line, L_dialogue)
        props    == assignFields(EmptyObj, format, dialogueValues(match[1], format), 1)
        startStr == getField(props, K_Start, <<>>)
        endStr   == getField(props, K_End, <<>>)
        textStr  == getField(props, K_Text, <<>>)
        start    == parseTimestamp(startStr[1])
        end      == parseTimestamp(endStr[1])
        full     == IF textStr # <<>> THEN setProp(props, K_cleanText, cleanText(textStr[1]))
                    ELSE props
    IN  IF match = <<>> THEN events
        ELSE IF startStr # <<>> /\ startStr[1] # <<>> /\ endStr # <<>> /\ endStr[1] # <<>>
             THEN IF start # NoValue /\ end # NoValue /\ truthyProp(full, K_cleanText)
                  THEN Append(events, [props |-> full, startTime |-> start, endTime |-> end])
                  ELSE events
             ELSE events

(***************************************************************************)
(* parse, reset                                                            *)
(***************************************************************************)
\* a nullable local (currentSection, styleFormat, eventFormat) is <<>> for
\* null and <<value>> otherwise
Null == <<>>

Or0(x) == IF x = NoValue THEN 0 ELSE x

\* one iteration of the for loop over the trimmed lines
parseLine(st, line) ==
    IF line = <<>> \/ Head(line) = ";" \/ Head(line) = "!" THEN st
    ELSE IF Head(line) = "[" /\ line[Len(line)] = "]"
    THEN [st EXCEPT !.currentSection = <<toLowerCase(SubSeq(line, 2, Len(line) - 1))>>]
    ELSE IF st.currentSection = <<S_scriptInfo>>
    THEN [st EXCEPT !.scriptInfo = parseScriptInfo(st.scriptInfo, line)]
    ELSE IF st.currentSection = <<S_styles>>
    THEN IF testLabel(line, L_format)
         THEN [st EXCEPT !.styleFormat = <<parseFormat(line)>>]
         ELSE IF testLabel(line, L_style) /\ st.styleFormat # Null
         THEN [st EXCEPT !.styles = parseStyle(st.styles, line, st.styleFormat[1])]
         ELSE st
    ELSE IF st.currentSection = <<S_events>>
    THEN IF testLabel(line, L_format)
         THEN [st EXCEPT !.eventFormat = <<parseFormat(line)>>]
         ELSE IF testLabel(line, L_dialogue)
         THEN [st EXCEPT !.events =
                  parseEvent(st.events, line,
                             IF st.eventFormat # Null THEN st.eventFormat[1]
                             ELSE defaultEventFormat)]
         ELSE st
    ELSE st

\* an element of assContent.split('\n') whose trim() returns a value that is
\* not a string and not falsy: line.startsWith is not a function
Unreadable == <<"not a string">>

\* the for loop; st.thrown is set when an iteration throws, and the loop is
\* left at that iteration
RECURSIVE parseLines(_, _, _)
parseLines(st, lines, i) ==
    IF i > Len(lines) THEN st
    ELSE IF lines[i] = Unreadable THEN [st EXCEPT !.thrown = TRUE]
    ELSE parseLines(parseLine(st, trim(lines[i])), lines, i + 1)

\* variant: an element is inserted before the elements that compare equal
RECURSIVE sortInsert_unstable(_, _)
sortInsert_unstable(sorted, e) ==
    IF sorted = <<>> THEN <<e>>
    ELSE IF Or0(Head(sorted).startTime) - Or0(e.startTime) >= 0 THEN <<e>> \o sorted
    ELSE <<Head(sorted)>> \o sortInsert_unstable(Tail(sorted), e)

\* Array.prototype.sort with (a.startTime || 0) - (b.startTime || 0): a stable
\* sort; each element is inserted after the elements that do not compare
\* greater than it
RECURSIVE sortInsert(_, _)
sortInsert(sorted, e) ==
    IF sorted = <<>> THEN <<e>>
    ELSE IF Or0(Head(sorted).startTime) - Or0(e.startTime) > 0 THEN <<e>> \o sorted
    ELSE <<Head(sorted)>> \o sortInsert(Tail(sorted), e)

RECURSIVE sortEvents(_, _)
sortEvents(events, i) ==
    IF i = 0 THEN <<>> ELSE sortInsert(sortEvents(events, i - 1), events[i])

\* variant: the events are not cleared
reset_keepEvents(store) == [styles |-> <<>>, events |-> store.events, scriptInfo |-> EmptyObj, parsed |-> FALSE]

\* reset(): the store it leaves
reset(store) == [styles |-> <<>>, events |-> <<>>, scriptInfo |-> EmptyObj, parsed |-> FALSE]

\* assContent is [hasSplit, lines]; the outcome is the return value and the
\* store parse leaves behind.  A value with no split method makes
\* assContent.split throw right after this.reset(); an exception thrown in
\* the loop leaves the loop with what the earlier iterations have stored.
\* The catch block logs and returns false.
parse(store, assContent) ==
    LET cleared == reset(store)
        st == parseLines([currentSection |-> Null, styleFormat |-> Null,
                          eventFormat |-> Null, styles |-> cleared.styles,
                          events |-> cleared.events,
                          scriptInfo |-> cleared.scriptInfo, thrown |-> FALSE],
                         assContent.lines, 1)
    IN  IF ~assContent.hasSplit
        THEN [ok |-> FALSE, store |-> cleared]
        ELSE IF st.thrown
        THEN [ok |-> FALSE,
              store |-> [styles |-> st.styles, events |-> st.events,
                         scriptInfo |-> st.scriptInfo, parsed |-> cleared.parsed]]
        ELSE [ok |-> TRUE,
              store |-> [styles |-> st.styles,
                         events |-> sortEvents(st.events, Len(st.events)),
                         scriptInfo |-> st.scriptInfo,
                         parsed |-> TRUE]]

(***************************************************************************)
(* Temporal queries                                                        *)
(***************************************************************************)


\* variant: the parsed flag is not tested
getActiveSubtitles_noReadyCheck(store, currentTime) ==
    LET active(event) == /\ currentTime >= Or0(event.startTime)
                         /\ currentTime <= Or0(event.endTime)
    IN  SelectSeq(store.events, active)

\* variant: the end of an event is excluded (currentTime < end)
getActiveSubtitles_endExclusive(store, currentTime) ==
    LET active(event) == /\ currentTime >= Or0(event.startTime)
                         /\ currentTime < Or0(event.endTime)
    IN  IF ~store.parsed THEN <<>> ELSE SelectSeq(store.events, active)

getActiveSubtitles(store, currentTime) ==
    LET active(event) == /\ currentTime >= Or0(event.startTime)
                         /\ currentTime <= Or0(event.endTime)
    IN  IF ~store.parsed THEN <<>> ELSE SelectSeq(store.events, active)

D_Default == <<"D", "e", "f", "a", "u", "l", "t">>

\* subtitle.Style || 'Default'
styleNameOf(subtitle) ==
    IF truthyProp(subtitle.props, K_Style) THEN subtitle.props[K_Style] ELSE D_Default

\* 2^32 - 1 in decimal digits
MaxIndexDigits == <<"4", "2", "9", "4", "9", "6", "7", "2", "9", "5">>

\* a < b for two digit strings of one length
RECURSIVE lessDigits(_, _)
lessDigits(a, b) ==
    IF a = <<>> THEN FALSE
    ELSE IF DigitVal[Head(a)] # DigitVal[Head(b)] THEN DigitVal[Head(a)] < DigitVal[Head(b)]
    ELSE lessDigits(Tail(a), Tail(b))

\* a property key that is an array index, the canonical decimal form of an
\* integer below 2^32 - 1
isArrayIndex(key) ==
    /\ key # <<>> /\ allDigits(key)
    /\ Len(key) = 1 \/ Head(key) # "0"
    /\ \/ Len(key) < Len(MaxIndexDigits)
       \/ Len(key) = Len(MaxIndexDigits) /\ lessDigits(key, MaxIndexDigits)

\* the order of two array-index keys
lessIndex(a, b) == Len(a) < Len(b) \/ (Len(a) = Len(b) /\ lessDigits(a, b))

\* grouped is the sequence of the [key, events] entries of the object in
\* the order Object.keys gives them: the array-index keys in ascending
\* numeric order, then the other keys in the order of their creation.  A new
\* entry takes its place in that order.
RECURSIVE insertKey(_, _)
insertKey(grouped, entry) ==
    IF grouped = <<>> THEN <<entry>>
    ELSE IF /\ isArrayIndex(entry.key)
            /\ \/ ~isArrayIndex(Head(grouped).key)
               \/ lessIndex(entry.key, Head(grouped).key)
    THEN <<entry>> \o grouped
    ELSE <<Head(grouped)>> \o insertKey(Tail(grouped), entry)

\* if (!grouped[styleName]) grouped[styleName] = []; grouped[styleName].push(subtitle)
groupedPush(grouped, styleName, subtitle) ==
    IF \A i \in 1..Len(grouped) : grouped[i].key # styleName
    THEN insertKey(grouped, [key |-> styleName, events |-> <<subtitle>>])
    ELSE [i \in 1..Len(grouped) |->
             IF grouped[i].key = styleName
             THEN [grouped[i] EXCEPT !.events = Append(@, subtitle)]
             ELSE grouped[i]]

RECURSIVE groupByStyle(_, _, _)
groupByStyle(grouped, subtitles, i) ==
    IF i > Len(subtitles) THEN grouped
    ELSE groupByStyle(groupedPush(grouped, styleNameOf(subtitles[i]), subtitles[i]),
                      subtitles, i + 1)

getActiveSubtitlesByStyle(store, currentTime) ==
    groupByStyle(<<>>, getActiveSubtitles(store, currentTime), 1)

getAvailableStyles(store) == [i \in 1..Len(store.styles) |-> store.styles[i][K_Name]]

isReady(store) == store.parsed /\ Len(store.events) > 0

RECURSIVE maxEnd(_, _)
maxEnd(events, i) ==
    IF i = 1 THEN Or0(events[1].endTime)
    ELSE LET m == maxEnd(events, i - 1)
         IN  IF Or0(events[i].endTime) > m THEN Or0(events[i].endTime) ELSE m

getStats(store) ==
    [totalEvents   |-> Len(store.events),
     languages     |-> getAvailableStyles(store),
     languageCount |-> Len(getAvailableStyles(store)),
     duration      |-> IF Len(store.events) > 0 THEN maxEnd(store.events, Len(store.events)) ELSE 0,
     parsed        |-> store.parsed]

getEvents(store) == store.events

(***************************************************************************)
(* Dedup / merge and navigation                                            *)
(***************************************************************************)
DedupeEpsilonMs == 1

duplicateMergeWindowMs == 180

bufferMs == 50

Abs(x) == IF x < 0 THEN 0 - x ELSE x

Max(a, b) == IF a > b THEN a ELSE b

\* lastStart is NoValue until an event has been kept
RECURSIVE dedupeFrom(_, _, _, _)
dedupeFrom(events, i, lastStart, result) ==
    IF i > Len(events) THEN result
    ELSE LET start == events[i].startTime
         IN  IF start = NoValue THEN dedupeFrom(events, i + 1, lastStart, result)
             ELSE IF lastStart # NoValue /\ Abs(start - lastStart) < DedupeEpsilonMs
             THEN dedupeFrom(events, i + 1, lastStart, result)
             ELSE dedupeFrom(events, i + 1, start, Append(result, events[i]))

\* variant: an event within the epsilon replaces the event kept before it
RECURSIVE dedupeFromKeepLast(_, _, _, _)
dedupeFromKeepLast(events, i, lastStart, result) ==
    IF i > Len(events) THEN result
    ELSE LET start == events[i].startTime
         IN  IF start = NoValue THEN dedupeFromKeepLast(events, i + 1, lastStart, result)
             ELSE IF lastStart # NoValue /\ Abs(start - lastStart) < DedupeEpsilonMs
             THEN dedupeFromKeepLast(events, i + 1, lastStart,
                                     [result EXCEPT ![Len(result)] = events[i]])
             ELSE dedupeFromKeepLast(events, i + 1, start, Append(result, events[i]))

dedupeEventsByStart_keepLast(events) == dedupeFromKeepLast(events, 1, NoValue, <<>>)

dedupeEventsByStart(events) == dedupeFrom(events, 1, NoValue, <<>>)

\* text.replace(/\s+/g, ' ')
RECURSIVE collapseSpace(_)
collapseSpace(s) ==
    IF s = <<>> THEN <<>>
    ELSE IF Head(s) \in WhiteSpace THEN <<" ">> \o collapseSpace(trimStart(s))
    ELSE <<Head(s)>> \o collapseSpace(Tail(s))

normalizeEventText(event) ==
    LET text == IF truthyProp(event.props, K_cleanText) THEN event.props[K_cleanText] ELSE <<>>
    IN  toLowerCase(trim(collapseSpace(text)))

\* variant: the kept end becomes the end of the absorbed event
mergeStep_lastEnd(merged, event) ==
    LET normalizedText == normalizeEventText(event)
        start    == event.startTime
        end      == event.endTime
        last     == merged[Len(merged)]
        lastText == normalizeEventText(last)
        lastEnd  == Or0(last.endTime)
        gap      == start - lastEnd
        overlaps == start <= lastEnd
    IN  IF normalizedText = <<>> THEN merged
        ELSE IF start = NoValue \/ end = NoValue \/ end <= start THEN merged
        ELSE IF /\ merged # <<>>
                /\ lastText # <<>> /\ lastText = normalizedText
                /\ (overlaps \/ (gap >= 0 /\ gap <= duplicateMergeWindowMs))
        THEN [merged EXCEPT ![Len(merged)].endTime = end]
        ELSE Append(merged, event)

\* variant: the texts are not compared
mergeStep_anyText(merged, event) ==
    LET normalizedText == normalizeEventText(event)
        start    == event.startTime
        end      == event.endTime
        last     == merged[Len(merged)]
        lastText == normalizeEventText(last)
        lastEnd  == Or0(last.endTime)
        gap      == start - lastEnd
        overlaps == start <= lastEnd
    IN  IF normalizedText = <<>> THEN merged
        ELSE IF start = NoValue \/ end = NoValue \/ end <= start THEN merged
        ELSE IF /\ merged # <<>>
                /\ (overlaps \/ (gap >= 0 /\ gap <= duplicateMergeWindowMs))
        THEN [merged EXCEPT ![Len(merged)].endTime = Max(lastEnd, end)]
        ELSE Append(merged, event)

\* variant: the gap must be strictly below the window
mergeStep_gapExclusive(merged, event) ==
    LET normalizedText == normalizeEventText(event)
        start    == event.startTime
        end      == event.endTime
        last     == merged[Len(merged)]
        lastText == normalizeEventText(last)
        lastEnd  == Or0(last.endTime)
        gap      == start - lastEnd
        overlaps == start <= lastEnd
    IN  IF normalizedText = <<>> THEN merged
        ELSE IF start = NoValue \/ end = NoValue \/ end <= start THEN merged
        ELSE IF /\ merged # <<>>
                /\ lastText # <<>> /\ lastText = normalizedText
                /\ (overlaps \/ (gap >= 0 /\ gap < duplicateMergeWindowMs))
        THEN [merged EXCEPT ![Len(merged)].endTime = Max(lastEnd, end)]
        ELSE Append(merged, event)

\* one iteration of the loop of mergeAdjacentDuplicateEvents
mergeStep(merged, event) ==
    LET normalizedText == normalizeEventText(event)
        start    == event.startTime
        end      == event.endTime
        last     == merged[Len(merged)]
        lastText == normalizeEventText(last)
        lastEnd  == Or0(last.endTime)
        gap      == start - lastEnd
        overlaps == start <= lastEnd
    IN  IF normalizedText = <<>> THEN merged
        ELSE IF start = NoValue \/ end = NoValue \/ end <= start THEN merged
        ELSE IF /\ merged # <<>>
                /\ lastText # <<>> /\ lastText = normalizedText
                /\ (overlaps \/ (gap >= 0 /\ gap <= duplicateMergeWindowMs))
        THEN [merged EXCEPT ![Len(merged)].endTime = Max(lastEnd, end)]
        ELSE Append(merged, event)

RECURSIVE mergeFrom(_, _, _)
mergeFrom(events, i, merged) ==
    IF i > Len(events) THEN merged
    ELSE mergeFrom(events, i + 1, mergeStep(merged, events[i]))

mergeAdjacentDuplicateEvents(events) == mergeFrom(events, 1, <<>>)

P_Mandarin == <<"M", "a", "n", "d", "a", "r", "i", "n">>
P_Chinese  == <<"C", "h", "i", "n", "e", "s", "e">>
P_Simplified == <<" ", "S", "i", "m", "p", "l", "i", "f", "i", "e", "d">>
P_CHS      == <<"C", "H", "S">>

preferredOrder ==
    <<P_Mandarin, P_Chinese, P_Mandarin \o P_Simplified, P_Chinese \o P_Simplified,
      P_CHS, D_Default>>

\* styles.find(style => style.toLowerCase() === candidate.toLowerCase())
RECURSIVE findStyle(_, _)
findStyle(styles, candidate) ==
    IF styles = <<>> THEN Null
    ELSE IF toLowerCase(Head(styles)) = toLowerCase(candidate) THEN <<Head(styles)>>
    ELSE findStyle(Tail(styles), candidate)

RECURSIVE resolveFrom(_, _)
resolveFrom(styles, i) ==
    IF i > Len(preferredOrder) THEN <<styles[1]>>
    ELSE IF findStyle(styles, preferredOrder[i]) # Null THEN findStyle(styles, preferredOrder[i])
    ELSE resolveFrom(styles, i + 1)

\* variant: the first style, whatever the preferred order
resolvePreferredStyle_first(store) ==
    LET styles == getAvailableStyles(store)
    IN  IF styles = <<>> THEN Null ELSE <<styles[1]>>

\* Null or <<name>>
resolvePreferredStyle(store) ==
    LET styles == getAvailableStyles(store)
    IN  IF styles = <<>> THEN Null ELSE resolveFrom(styles, 1)

\* requestedStyle || this.resolvePreferredStyle(); requestedStyle is Null when
\* the argument is omitted, else <<name>>
targetStyleOf(store, requestedStyle) ==
    IF requestedStyle # Null /\ requestedStyle[1] # <<>>
    THEN requestedStyle ELSE resolvePreferredStyle(store)

\* steps 1 and 2 of getNavigableEvents: the events of the target style that
\* have a clean text
validEventsOf(store, requestedStyle) ==
    LET targetStyle == targetStyleOf(store, requestedStyle)
        ofStyle(e)  == has(e.props, K_Style) /\ e.props[K_Style] = targetStyle[1]
        hasText(e)  == truthyProp(e.props, K_cleanText)
        filteredEvents == IF targetStyle # Null /\ targetStyle[1] # <<>>
                          THEN SelectSeq(store.events, ofStyle) ELSE store.events
    IN  SelectSeq(filteredEvents, hasText)

getNavigableEvents(store, requestedStyle) ==
    IF ~store.parsed THEN <<>>
    ELSE mergeAdjacentDuplicateEvents(
             dedupeEventsByStart(validEventsOf(store, requestedStyle)))

\* variant: merged holds the stored objects themselves, so the end written
\* to a kept event is written to the stored event it came from
eventsAfterNavigation_noClone(store, requestedStyle) ==
    LET merged == getNavigableEvents(store, requestedStyle)
        kept(i) == {k \in 1..Len(merged) :
                       /\ merged[k].props = store.events[i].props
                       /\ merged[k].startTime = store.events[i].startTime
                       /\ \A j \in 1..(i - 1) : store.events[j] # store.events[i]}
    IN  [i \in 1..Len(store.events) |->
            IF kept(i) = {} THEN store.events[i]
            ELSE [store.events[i] EXCEPT !.endTime = merged[CHOOSE k \in kept(i) : TRUE].endTime]]

\* this.events after a call of getNavigableEvents: filter and
\* dedupeEventsByStart build new arrays of the stored objects, and the merge
\* loop pushes and extends clones ({ ...event }), so no stored event is
\* written
eventsAfterNavigation(store, requestedStyle) == store.events

\* events.find(e => (e.startTime || 0) > currentTime + buffer)
RECURSIVE findNext(_, _, _)
findNext(events, i, currentTime) ==
    IF i > Len(events) THEN NoValue
    ELSE IF Or0(events[i].startTime) > currentTime + bufferMs THEN events[i].startTime
    ELSE findNext(events, i + 1, currentTime)

\* variant: an event that starts exactly at currentTime + buffer is found
RECURSIVE findNextInclusive(_, _, _)
findNextInclusive(events, i, currentTime) ==
    IF i > Len(events) THEN NoValue
    ELSE IF Or0(events[i].startTime) >= currentTime + bufferMs THEN events[i].startTime
    ELSE findNextInclusive(events, i + 1, currentTime)

getNextEventTime_inclusive(store, currentTime) ==
    LET events == getNavigableEvents(store, Null)
    IN  IF Len(events) = 0 THEN NoValue ELSE findNextInclusive(events, 1, currentTime)

\* variant: past the last event the search wraps to the first event
getNextEventTime_wrap(store, currentTime) ==
    LET events == getNavigableEvents(store, Null)
        found  == findNext(events, 1, currentTime)
    IN  IF Len(events) = 0 THEN NoValue
        ELSE IF found = NoValue THEN events[1].startTime ELSE found

\* variant: the buffer is not added to currentTime
getNextEventTime_noBuffer(store, currentTime) ==
    LET events == getNavigableEvents(store, Null)
    IN  IF Len(events) = 0 THEN NoValue ELSE findNext(events, 1, currentTime - bufferMs)

getNextEventTime(store, currentTime) ==
    LET events == getNavigableEvents(store, Null)
    IN  IF Len(events) = 0 THEN NoValue ELSE findNext(events, 1, currentTime)

RECURSIVE findPrev(_, _, _)
findPrev(events, i, currentTime) ==
    IF i < 1 THEN NoValue
    ELSE IF Or0(events[i].startTime) < currentTime - bufferMs THEN events[i].startTime
    ELSE findPrev(events, i - 1, currentTime)

\* variant: the list is scanned from its beginning
RECURSIVE findPrevForward(_, _, _)
findPrevForward(events, i, currentTime) ==
    IF i > Len(events) THEN NoValue
    ELSE IF Or0(events[i].startTime) < currentTime - bufferMs THEN events[i].startTime
    ELSE findPrevForward(events, i + 1, currentTime)

getPrevEventTime_forward(store, currentTime) ==
    LET events == getNavigableEvents(store, Null)
    IN  IF Len(events) = 0 THEN NoValue ELSE findPrevForward(events, 1, currentTime)

\* variant: the buffer is not subtracted from currentTime
getPrevEventTime_noBuffer(store, currentTime) ==
    LET events == getNavigableEvents(store, Null)
    IN  IF Len(events) = 0 THEN NoValue
        ELSE findPrev(events, Len(events), currentTime + bufferMs)

getPrevEventTime(store, currentTime) ==
    LET events == getNavigableEvents(store, Null)
    IN  IF Len(events) = 0 THEN NoValue ELSE findPrev(events, Len(events), currentTime)

(***************************************************************************)
(* Script texts handed to parse                                            *)
(*                                                                         *)
(* A dialogue line is described by its four field texts; the script text   *)
(* is rendered from the descriptions, and parse works on the rendered      *)
(* characters only.                                                        *)
(***************************************************************************)
N_Hanzi  == <<"H", "a", "n", "z", "i">>
N_Pinyin == <<"P", "i", "n", "y", "i", "n">>
N_chs    == <<"c", "h", "s">>
N_English == <<"E", "n", "g", "l", "i", "s", "h">>
N_1      == <<"1">>

TS_1_00  == <<"0", ":", "0", "0", ":", "0", "1", ".", "0", "0">>
TS_1_05  == <<"0", ":", "0", "0", ":", "0", "1", ".", "0", "5">>
TS_2_00  == <<"0", ":", "0", "0", ":", "0", "2", ".", "0", "0">>
TS_2_14  == <<"0", ":", "0", "0", ":", "0", "2", ".", "1", "4">>
TS_2_15  == <<"0", ":", "0", "0", ":", "0", "2", ".", "1", "5">>
TS_3_00  == <<"0", ":", "0", "0", ":", "0", "3", ".", "0", "0">>
TS_5_00  == <<"0", ":", "0", "0", ":", "0", "5", ".", "0", "0">>
TS_5_18  == <<"0", ":", "0", "0", ":", "0", "5", ".", "1", "8">>
TS_5_181 == <<"0", ":", "0", "0", ":", "0", "5", ".", "1", "8", "1">>
TS_5_5   == <<"0", ":", "0", "0", ":", "0", "5", ".", "5">>
TS_6_00  == <<"0", ":", "0", "0", ":", "0", "6", ".", "0", "0">>
TS_10_00 == <<"0", ":", "0", "0", ":", "1", "0", ".", "0", "0">>
TS_11_00 == <<"0", ":", "0", "0", ":", "1", "1", ".", "0", "0">>
TS_15_00 == <<"0", ":", "0", "0", ":", "1", "5", ".", "0", "0">>
TS_bad   == <<"b", "a", "d", ":", "t", "i", "m", "e">>

X_ni     == <<"n", "i">>
X_Ni     == <<"N", "i">>
X_hao    == <<"h", "a", "o">>
X_nihao  == <<"n", "i", "h", "a", "o">>
X_ma     == <<"m", "a">>
X_tagNi  == <<"{", "\\", "i", "1", "}", "n", "i">>
X_tag    == <<"{", "\\", "a", "n", "8", "}">>
X_comma  == <<"n", "i", ",", " ", "h", "a", "o">>

Ln(start, end, style, text) == [start |-> start, end |-> end, style |-> style, text |-> text]

LnA == Ln(TS_1_00, TS_5_00, N_Hanzi, X_ni)
LnB == Ln(TS_6_00, TS_10_00, N_Hanzi, X_hao)
LnC == Ln(TS_11_00, TS_15_00, N_Hanzi, X_ma)
LnD == Ln(TS_5_18, TS_6_00, N_Hanzi, X_Ni)
LnE == Ln(TS_5_181, TS_5_5, N_Hanzi, X_tagNi)
LnF == Ln(TS_1_00, TS_1_00, N_Hanzi, X_hao)
LnG == Ln(TS_1_00, TS_5_00, N_Pinyin, X_ni)
LnH == Ln(TS_bad, TS_5_00, N_Hanzi, X_ni)
LnI == Ln(TS_2_00, TS_3_00, N_Hanzi, X_tag)
LnJ == Ln(TS_1_05, TS_5_00, N_chs, X_comma)
LnK == Ln(TS_6_00, TS_10_00, D_Default, X_hao)

LnL == Ln(TS_1_00, <<>>, N_Hanzi, X_ni)
LnP == Ln(TS_2_00, TS_2_14, N_Hanzi, X_nihao)
LnQ == Ln(TS_2_15, TS_3_00, N_Hanzi, X_nihao)

\* a differently worded line between the two fragments
LnR == Ln(TS_2_14, TS_2_15, N_Hanzi, X_hao)

\* the tracks English and 1 over the window of LnA
LnT == Ln(TS_1_00, TS_5_00, N_English, X_hao)

LnN == Ln(TS_1_00, TS_5_00, N_1, X_ni)

\* the lines by name
LineOf == [R |-> LnR, T |-> LnT, N |-> LnN, A |-> LnA, B |-> LnB, C |-> LnC, D |-> LnD, E |-> LnE, F |-> LnF, G |-> LnG,
           H |-> LnH, I |-> LnI, J |-> LnJ, K |-> LnK, L |-> LnL, P |-> LnP, Q |-> LnQ]

\* one track, events that touch, overlap, repeat a start or have no duration
TimingPool == {"A", "B", "D", "E", "F"}

\* several tracks
TrackPool == {"A", "G", "J", "K"}

\* a bad timestamp, a text of tags only, an empty End field
MalformedPool == {"A", "H", "I", "L"}

\* the fragments of one sentence
FragmentPool == {"P", "Q", "B"}

\* Scenarios A and B of the specification and scripts of three lines built
\* for a purpose
ScenarioScripts ==
    {<<"A", "B", "C">>, <<"C", "A", "B">>, <<"P", "R", "Q">>, <<"A", "G", "T">>, <<"A", "N">>}

\* the style tables by name
StyleTableOf == [none |-> <<>>,
                 HP   |-> <<N_Hanzi, N_Pinyin>>,
                 PH   |-> <<N_Pinyin, N_Hanzi>>,
                 Hc   |-> <<N_Hanzi, N_chs>>,
                 DcH  |-> <<D_Default, N_chs, N_Hanzi>>]

StyleTables == {"none", "HP", "PH", "Hc", "DcH"}

EventFormats == {"explicit", "default", "lower"}

MaxLines == 3

MaxVariantLines == 2

\* the sequences of at most n elements of S
RECURSIVE SeqsUpTo(_, _)
SeqsUpTo(S, n) ==
    IF n = 0 THEN {<<>>}
    ELSE LET shorter == SeqsUpTo(S, n - 1)
         IN  shorter \cup {Append(q, x) : q \in {r \in shorter : Len(r) = n - 1}, x \in S}

RenderStyle(name) == <<"S", "t", "y", "l", "e", ":", " ">> \o name \o <<",", "A", "r", "i", "a", "l", ",", "2", "0", ",", "&", "H", "0", "0", "0", "0", "F", "F", "0", "0">>

RenderDialogue(fmt, l) ==
    IF fmt = "default"
    THEN <<"D", "i", "a", "l", "o", "g", "u", "e", ":", " ", "0", ",">> \o l.start \o <<",">> \o l.end \o <<",">> \o l.style
         \o <<",", ",", "0", ",", "0", ",", "0", ",", ",">> \o l.text
    ELSE <<"D", "i", "a", "l", "o", "g", "u", "e", ":", " ">> \o l.start \o <<",">> \o l.end \o <<",">> \o l.style
         \o <<",">> \o l.text

RenderScript(styleTable, fmt, lines) ==
    << <<"[", "S", "c", "r", "i", "p", "t", " ", "I", "n", "f", "o", "]">>, <<";", " ", "s", "c", "r", "i", "p", "t">>, <<"T", "i", "t", "l", "e", ":", " ", "n", "i">>, <<>> >>
    \o (IF styleTable = <<>> THEN <<>>
        ELSE << <<"[", "V", "4", "+", " ", "S", "t", "y", "l", "e", "s", "]">>, <<"F", "o", "r", "m", "a", "t", ":", " ", "N", "a", "m", "e", ",", " ", "F", "o", "n", "t", "n", "a", "m", "e", ",", " ", "F", "o", "n", "t", "s", "i", "z", "e", ",", " ", "P", "r", "i", "m", "a", "r", "y", "C", "o", "l", "o", "u", "r">> >>
             \o [i \in 1..Len(styleTable) |-> RenderStyle(styleTable[i])])
    \o << <<"[", "E", "v", "e", "n", "t", "s", "]">> >>
    \o (IF fmt = "explicit" THEN << <<"F", "o", "r", "m", "a", "t", ":", " ", "S", "t", "a", "r", "t", ",", " ", "E", "n", "d", ",", " ", "S", "t", "y", "l", "e", ",", " ", "T", "e", "x", "t">> >>
        ELSE IF fmt = "lower" THEN << <<"F", "o", "r", "m", "a", "t", ":", " ", "s", "t", "a", "r", "t", ",", " ", "e", "n", "d", ",", " ", "s", "t", "y", "l", "e", ",", " ", "t", "e", "x", "t">> >>
        ELSE <<>>)
    \o [i \in 1..Len(lines) |-> RenderDialogue(fmt, lines[i])]

\* a string
Text(lines) == [hasSplit |-> TRUE, lines |-> lines]

\* a value that is not a string and has no split method (null, a number)
NoContent == [hasSplit |-> FALSE, lines |-> <<>>]

\* a value that is not a string and has a split method of its own, which
\* returns the lines followed by an element that is not a string
OwnSplit(lines) == [hasSplit |-> TRUE, lines |-> Append(lines, Unreadable)]

\* a script is named by its style table, its Events format and its lines
Script(tbl, fmt, ls) ==
    [isText |-> TRUE, split |-> "string", styles |-> tbl, fmt |-> fmt, lines |-> ls]

NoScript ==
    [isText |-> FALSE, split |-> "none", styles |-> "none", fmt |-> "default", lines |-> <<>>]

NotAString(tbl, fmt, ls) ==
    [isText |-> FALSE, split |-> "own", styles |-> tbl, fmt |-> fmt, lines |-> ls]

\* values that are not strings and make an iteration of the loop throw
\* after a style and one or two dialogue lines have been handled
ThrowingScripts ==
    {NotAString("HP", "explicit", <<"A">>), NotAString("HP", "explicit", <<"B", "A">>)}

Scripts ==
    {Script("HP", "explicit", ls) : ls \in SeqsUpTo(TimingPool, MaxLines)}
    \cup {Script("HP", "explicit", ls) : ls \in ScenarioScripts}
    \cup {Script(tbl, "explicit", ls) :
            tbl \in StyleTables, ls \in SeqsUpTo(TrackPool, MaxVariantLines)}
    \cup {Script("HP", fmt, ls) :
            fmt \in EventFormats, ls \in SeqsUpTo(MalformedPool, MaxVariantLines)}
    \cup {Script("HP", "explicit", ls) : ls \in SeqsUpTo(FragmentPool, MaxVariantLines)}
    \cup {NoScript}
    \cup ThrowingScripts

\* the value handed to parse for a script
ContentOf(sc) ==
    LET lines == RenderScript(StyleTableOf[sc.styles], sc.fmt,
                              [i \in 1..Len(sc.lines) |-> LineOf[sc.lines[i]]])
    IN  IF sc.split = "none" THEN NoContent
        ELSE IF sc.split = "own" THEN OwnSplit(lines)
        ELSE Text(lines)

(***************************************************************************)
(* The parser instance and its callers                                     *)
(***************************************************************************)
VARIABLES
    script,       \* the script whose text the caller holds and hands to parse
    styles,       \* this.styles: the style objects in insertion order
    events,       \* this.events
    scriptInfo,   \* this.scriptInfo
    parsed,       \* this.parsed
    ret,          \* the last call: [op, t, style, value]
    previous,     \* the script this instance had parsed before the caller
                  \* loaded the present one into it; Null if there is none
    input,        \* the argument of the conversion under test; Null when
                  \* the parser instance is what is exercised
    watch,        \* the watch page around the parser: the position of the
                  \* video, the debounce flag of the gesture handlers and the
                  \* starts the next-sentence handler has sought; Null when
                  \* no page is exercised
    player,       \* the custom video player: its refs, its pending timers
                  \* and the state of its video element; Null likewise
    pad           \* the gesture trackpad: its refs and timers; Null likewise

vars == <<script, styles, events, scriptInfo, parsed, ret, previous, input, watch, player, pad>>

\* the text handed to parse
assContent == ContentOf(script)

Store == [styles |-> styles, events |-> events, scriptInfo |-> scriptInfo, parsed |-> parsed]

\* query times in ms, at and around the starts and ends of the events of the
\* pools and the navigation buffer
ActiveTimes == {1000, 2500, 5000, 5001}

NextTimes == {949, 950, 1000, 2500, 5949}

PrevTimes == {1000, 1050, 1051, 2500, 6051}

RequestedStyles == {Null, <<N_Hanzi>>, <<N_Pinyin>>}

Call(op, t, style, value) == [op |-> op, t |-> t, style |-> style, value |-> value]

Init ==
    /\ script \in Scripts
    /\ styles = <<>>
    /\ events = <<>>
    /\ scriptInfo = EmptyObj
    /\ parsed = FALSE
    /\ ret = Call("new", 0, Null, TRUE)
    /\ previous = Null
    /\ input = Null
    /\ watch = Null /\ player = Null /\ pad = Null

SetStore(store) ==
    /\ styles' = store.styles
    /\ events' = store.events
    /\ scriptInfo' = store.scriptInfo
    /\ parsed' = store.parsed

\* a call of parse(assContent)
Parse ==
    LET out == parse(Store, assContent)
    IN  /\ SetStore(out.store)
        /\ ret' = Call("parse", 0, Null, out.ok)
        /\ UNCHANGED <<script, previous, input, watch, player, pad>>

\* a call of reset()
Reset ==
    /\ SetStore(reset(Store))
    /\ ret' = Call("reset", 0, Null, TRUE)
    /\ UNCHANGED <<script, previous, input, watch, player, pad>>

\* the calls of the queries, with their argument drawn from T
ActiveEventsAt(T) ==
    \E t \in T :
        /\ ret' = Call("getActiveSubtitles", t, Null, getActiveSubtitles(Store, t))
        /\ UNCHANGED <<script, styles, events, scriptInfo, parsed, previous, input, watch, player, pad>>

ActiveEventsByTrack(T) ==
    \E t \in T :
        /\ ret' = Call("getActiveSubtitlesByStyle", t, Null, getActiveSubtitlesByStyle(Store, t))
        /\ UNCHANGED <<script, styles, events, scriptInfo, parsed, previous, input, watch, player, pad>>

NavigableEvents(R) ==
    \E requestedStyle \in R :
        /\ ret' = Call("getNavigableEvents", 0, requestedStyle,
                       getNavigableEvents(Store, requestedStyle))
        /\ events' = eventsAfterNavigation(Store, requestedStyle)
        /\ UNCHANGED <<script, styles, scriptInfo, parsed, previous, input, watch, player, pad>>

NextEventTime(T) ==
    \E t \in T :
        /\ ret' = Call("getNextEventTime", t, Null, getNextEventTime(Store, t))
        /\ events' = eventsAfterNavigation(Store, Null)
        /\ UNCHANGED <<script, styles, scriptInfo, parsed, previous, input, watch, player, pad>>

PrevEventTime(T) ==
    \E t \in T :
        /\ ret' = Call("getPrevEventTime", t, Null, getPrevEventTime(Store, t))
        /\ events' = eventsAfterNavigation(Store, Null)
        /\ UNCHANGED <<script, styles, scriptInfo, parsed, previous, input, watch, player, pad>>

Stats ==
    /\ ret' = Call("getStats", 0, Null, getStats(Store))
    /\ UNCHANGED <<script, styles, events, scriptInfo, parsed, previous, input, watch, player, pad>>

(***************************************************************************)
(* Spec: the watch page.  loadSubtitles constructs a parser, parses the     *)
(* fetched text once and only then publishes the instance (setParser); the *)
(* handlers and the subtitle display query the published instance.         *)
(***************************************************************************)
\* the instance has been published by setParser
Published == ret.op # "new"

LoadSubtitles == ~Published /\ Parse

QueryActive == Published /\ ActiveEventsAt(ActiveTimes)

QueryActiveByTrack == Published /\ ActiveEventsByTrack(ActiveTimes)

QueryNavigable == Published /\ NavigableEvents(RequestedStyles)

QueryNext == Published /\ NextEventTime(NextTimes)

QueryPrev == Published /\ PrevEventTime(PrevTimes)

QueryStats == Published /\ Stats

Next ==
    \/ LoadSubtitles
    \/ QueryActive
    \/ QueryActiveByTrack
    \/ QueryNavigable
    \/ QueryNext
    \/ QueryPrev
    \/ QueryStats

Spec == Init /\ [][Next]_vars

(***************************************************************************)
(* SpecApi: one instance under every sequence of calls of its public       *)
(* methods, parse and reset at any time and queries before, between and    *)
(* after them.                                                             *)
(***************************************************************************)
ApiTimes == {2500}

ApiNext ==
    \/ Parse
    \/ Reset
    \/ Stats
    \/ ActiveEventsAt(ApiTimes)
    \/ ActiveEventsByTrack(ApiTimes)
    \/ NavigableEvents({Null})
    \/ NextEventTime(ApiTimes)
    \/ PrevEventTime(ApiTimes)

SpecApi == Init /\ [][ApiNext]_vars

(***************************************************************************)
(* SpecReload: a caller that keeps one instance and loads one script after *)
(* another into it, querying the instance between the loads.               *)
(***************************************************************************)
ReloadScripts ==
    {Script("HP", "explicit", <<"A", "B", "C">>),
     Script("none", "explicit", <<"K">>),
     Script("DcH", "explicit", <<"J">>),
     Script("HP", "explicit", <<>>),
     NotAString("HP", "explicit", <<"A">>),
     NoScript}

InitReload ==
    /\ script \in ReloadScripts
    /\ styles = <<>>
    /\ events = <<>>
    /\ scriptInfo = EmptyObj
    /\ parsed = FALSE
    /\ ret = Call("new", 0, Null, TRUE)
    /\ previous = Null
    /\ input = Null
    /\ watch = Null /\ player = Null /\ pad = Null

\* parse(s) on the instance, whatever it holds: the first call finds the
\* store of the constructor, a later one the store left by the parse of the
\* script the instance was holding, which previous then records
LoadNext ==
    \E s \in ReloadScripts :
        LET out == parse(Store, ContentOf(s))
        IN  /\ script' = s
            /\ previous' = IF Published THEN <<script>> ELSE Null
            /\ SetStore(out.store)
            /\ ret' = Call("parse", 0, Null, out.ok)
            /\ UNCHANGED <<input, watch, player, pad>>

ReloadNext ==
    \/ LoadNext
    \/ QueryActive
    \/ QueryActiveByTrack
    \/ QueryNavigable
    \/ QueryNext
    \/ QueryPrev
    \/ QueryStats

SpecReload == InitReload /\ [][ReloadNext]_vars

(***************************************************************************)
(* SpecCodec: the conversions of field texts, each applied to arguments    *)
(* drawn from a pool.  A timestamp is described by its hours, minutes and  *)
(* seconds and by its fraction digits; the text handed to parseTimestamp   *)
(* is rendered from the description.                                       *)
(***************************************************************************)
DigitChar == <<"0", "1", "2", "3", "4", "5", "6", "7", "8", "9">>

RECURSIVE Decimal(_)
Decimal(n) == IF n < 10 THEN <<DigitChar[n + 1]>> ELSE Append(Decimal(n \div 10), DigitChar[(n % 10) + 1])

TwoDigits(n) == <<DigitChar[(n \div 10) + 1], DigitChar[(n % 10) + 1]>>

ThreeDigits(n) == <<DigitChar[(n \div 100) + 1]>> \o TwoDigits(n % 100)

\* the fractions, each with the milliseconds it stands for
FractionPool ==
    {[text |-> <<"5">>, ms |-> 500], [text |-> <<"9">>, ms |-> 900],
     [text |-> <<"0", "5">>, ms |-> 50], [text |-> <<"0", "0">>, ms |-> 0],
     [text |-> <<"5", "0">>, ms |-> 500],
     [text |-> <<"0", "0", "5">>, ms |-> 5], [text |-> <<"5", "0", "0">>, ms |-> 500],
     [text |-> <<"1", "2", "3">>, ms |-> 123], [text |-> <<"9", "9", "9">>, ms |-> 999]}

HourPool == {0, 1, 10}

MinutePool == {0, 2, 59}

SecondPool == {0, 1, 3, 59}

TimestampInputs ==
    [conv : {"timestamp"}, h : HourPool, m : MinutePool, s : SecondPool, frac : FractionPool]

\* field texts: timestamps of every shape the pattern allows, and texts that
\* miss it by one character
TimestampTexts ==
    {TS_1_00, TS_5_5, TS_5_181, TS_bad,
     <<"0", ":", "0", "0", ":", "0", "1">>,
     <<"0", "2", ":", "0", "3">>,
     <<"2", ":", "0", "3">>,
     <<"0", ":", "1", ":", "0", "5", ".", "0", "0">>,
     <<"0", ":", "0", "0", ":", "0", "1", ",", "5", "0">>,
     <<"0", ":", "0", "0", ":", "1", ".", "0", "0">>,
     <<"0", ":", "0", "0", ":", "0", "1", ".">>,
     <<"0", ":", "0", "0", ":", "0", "1", ".", "1", "2", "3", "4">>,
     <<"0", ":", "0", "0", ":", "0", "1", ".", "5", "x">>,
     <<"0", ":", "0", "0", "1", ":", "0", "1", ".", "0", "0">>,
     <<":", "0", "0", ":", "0", "1", ".", "0", "0">>,
     <<"0", ":", "0", "0", ":", "0", "1", ":", "0", "0">>,
     <<"0", ":", "0", "0", ":", "0", "1", ";", "0", "0">>,
     <<"-", "0", ":", "0", "0", ":", "0", "1", ".", "0", "0">>,
     <<"0", "1", ".", "5", "0">>}

\* a dialogue line that carries the text as its Start or as its End
FieldInputs == [conv : {"field"}, at : {"Start", "End"}, text : TimestampTexts]

\* the line of the [Events] section that carries the field text
DialogueWith(in) ==
    RenderDialogue("default",
                   IF in.at = "Start" THEN Ln(in.text, TS_15_00, N_Hanzi, X_ni)
                   ELSE Ln(TS_1_00, in.text, N_Hanzi, X_ni))

\* PrimaryColour values: 8, 6 and 7 hex digits after the marker, too few
\* digits, and no marker
ColourTexts ==
    {<<"&", "H", "0", "0", "0", "0", "F", "F", "0", "0">>,
     <<"&", "H", "0", "0", "F", "F", "0", "0">>,
     <<"&", "H", "F", "F", "0", "0", "0", "0", "F", "F">>,
     <<"&", "H", "8", "0", "1", "1", "2", "2", "3", "3">>,
     <<"&", "H", "1", "1", "2", "2", "3", "3">>,
     <<"&", "H", "A", "1", "1", "2", "2", "3", "3">>,
     <<"&", "H", "1", "2", "3">>,
     <<"1", "1", "2", "2", "3", "3">>}

ColourInputs == [conv : {"colour"}, text : ColourTexts]

\* the Format line of the [V4+ Styles] section and a Style line with the colour
StyleFormatLine ==
    <<"F", "o", "r", "m", "a", "t", ":", " ", "N", "a", "m", "e", ",", " ", "F", "o", "n", "t", "n", "a", "m", "e", ",", " ", "F", "o", "n", "t", "s", "i", "z", "e", ",", " ", "P", "r", "i", "m", "a", "r", "y", "C", "o", "l", "o", "u", "r">>

StyleWith(in) ==
    <<"S", "t", "y", "l", "e", ":", " ">> \o N_Hanzi \o <<",", "A", "r", "i", "a", "l", ",", "2", "0", ",">> \o in.text

\* Format lines of the [Events] section: three, four and five fields, the
\* text last or in the middle
EventFormatLines ==
    [F3 |-> <<"F", "o", "r", "m", "a", "t", ":", " ">> \o K_Start \o <<",", " ">> \o K_End \o <<",", " ">> \o K_Text,
     F4 |-> <<"F", "o", "r", "m", "a", "t", ":", " ">> \o K_Start \o <<",", " ">> \o K_End \o <<",", " ">> \o K_Style
            \o <<",", " ">> \o K_Text,
     F5 |-> <<"F", "o", "r", "m", "a", "t", ":", " ">> \o K_Start \o <<",", " ">> \o K_End \o <<",", " ">> \o K_Text
            \o <<",", " ">> \o K_Style \o <<",", " ">> \o K_Effect]

\* what follows "Dialogue: " on a line: one to seven comma-separated tokens,
\* some empty, some padded with spaces
EventParts ==
    {TS_1_00,
     TS_1_00 \o <<",">> \o TS_5_00,
     TS_1_00 \o <<",">> \o TS_5_00 \o <<",">> \o X_ni,
     TS_1_00 \o <<",">> \o TS_5_00 \o <<",">> \o N_Hanzi \o <<",">> \o X_ni,
     TS_1_00 \o <<",">> \o TS_5_00 \o <<",">> \o N_Hanzi \o <<",">> \o X_comma,
     TS_1_00 \o <<",">> \o TS_5_00 \o <<",">> \o N_Hanzi \o <<",">> \o X_ni \o <<",", ",">> \o X_hao \o <<",">>,
     TS_1_00 \o <<",", " ">> \o TS_5_00 \o <<" ", ",">> \o N_Hanzi \o <<",", " ">> \o X_ni \o <<" ", ",">> \o X_hao \o <<" ">>,
     TS_1_00 \o <<",">> \o TS_5_00 \o <<",">> \o N_Hanzi \o <<",">> \o X_ni \o <<",">> \o X_hao \o <<",">> \o X_ma
         \o <<",">> \o X_Ni}

DialogueInputs == [conv : {"dialogue"}, fmt : {"F3", "F4", "F5"}, part : EventParts]

\* the dialogue line and the format parseEvent is called with
LineOfInput(in) ==
    IF in.conv = "field" THEN DialogueWith(in)
    ELSE <<"D", "i", "a", "l", "o", "g", "u", "e", ":", " ">> \o in.part

FormatOfInput(in) ==
    IF in.conv = "field" THEN defaultEventFormat ELSE parseFormat(EventFormatLines[in.fmt])

\* H:MM:SS.f
RenderTimestamp(in) ==
    Decimal(in.h) \o <<":">> \o TwoDigits(in.m) \o <<":">> \o TwoDigits(in.s) \o <<".">> \o in.frac.text

InitCodec ==
    /\ script = NoScript
    /\ styles = <<>>
    /\ events = <<>>
    /\ scriptInfo = EmptyObj
    /\ parsed = FALSE
    /\ ret = Call("new", 0, Null, TRUE)
    /\ previous = Null
    /\ input \in TimestampInputs \cup FieldInputs \cup ColourInputs \cup DialogueInputs
    /\ watch = Null /\ player = Null /\ pad = Null

\* parseTimestamp(startStr), parseTimestamp(endStr)
DecodeTimestamp ==
    /\ input.conv = "timestamp"
    /\ ret' = Call("parseTimestamp", 0, Null, parseTimestamp(RenderTimestamp(input)))
    /\ UNCHANGED <<script, styles, events, scriptInfo, parsed, previous, input, watch, player, pad>>

\* this.parseEvent(line, eventFormat || defaultEventFormat) with no event
\* stored before
ParseEvent ==
    /\ input.conv \in {"field", "dialogue"}
    /\ ret' = Call("parseEvent", 0, Null, parseEvent(<<>>, LineOfInput(input), FormatOfInput(input)))
    /\ UNCHANGED <<script, styles, events, scriptInfo, parsed, previous, input, watch, player, pad>>

\* this.parseStyle(line, styleFormat) with an empty style table
ParseStyle ==
    /\ input.conv = "colour"
    /\ ret' = Call("parseStyle", 0, Null, parseStyle(<<>>, StyleWith(input), parseFormat(StyleFormatLine)))
    /\ UNCHANGED <<script, styles, events, scriptInfo, parsed, previous, input, watch, player, pad>>

CodecNext == DecodeTimestamp \/ ParseEvent \/ ParseStyle

SpecCodec == InitCodec /\ [][CodecNext]_vars

(***************************************************************************)
(* SpecStep: the next-sentence handler of the watch page.  The page loads   *)
(* the subtitles, the video stands at some position, and the handler is    *)
(* called again and again, by a tap (debounced for 300 ms) or by the rapid  *)
(* seek of the trackpad (forced).  player.seek sets the position of the    *)
(* video element at once; the video does not advance between the calls.    *)
(***************************************************************************)
subtitleOffset == 0

seekBufferMs == 10

StepScripts ==
    {Script("HP", "explicit", <<"A", "B", "C">>),
     Script("HP", "explicit", <<"C", "A", "B">>),
     Script("HP", "explicit", <<"P", "R", "Q">>),
     Script("HP", "explicit", <<"A", "D", "E">>),
     Script("HP", "explicit", <<"A", "G", "T">>),
     Script("HP", "explicit", <<"F", "A">>),
     Script("HP", "explicit", <<>>),
     Script("Hc", "explicit", <<"A", "J">>)}

\* positions of the video when the stepping starts
StepStarts == {0, 949, 950, 1000, 2100, 5949, 20000}

InitStep ==
    /\ script \in StepScripts
    /\ styles = <<>>
    /\ events = <<>>
    /\ scriptInfo = EmptyObj
    /\ parsed = FALSE
    /\ ret = Call("new", 0, Null, TRUE)
    /\ previous = Null
    /\ input = Null
    /\ \E t0 \in StepStarts :
           watch = [t0 |-> t0, currentTime |-> t0, isGestureProcessing |-> FALSE,
                    sought |-> <<>>, ended |-> FALSE]
    /\ player = Null /\ pad = Null

\* handleNextSentence(force) up to player.seek(seekTime)
NextSentence ==
    \E force \in BOOLEAN :
        LET queryTime == watch.currentTime - subtitleOffset
            nextTime  == getNextEventTime(Store, queryTime)
        IN  /\ Published
            /\ ~(watch.isGestureProcessing /\ ~force)
            /\ ret' = Call("getNextEventTime", queryTime, Null, nextTime)
            /\ events' = eventsAfterNavigation(Store, Null)
            /\ watch' = [watch EXCEPT
                   !.isGestureProcessing = IF force THEN @ ELSE TRUE,
                   !.currentTime = IF nextTime # NoValue
                                   THEN nextTime + subtitleOffset + seekBufferMs ELSE @,
                   !.sought = IF nextTime # NoValue THEN Append(@, nextTime) ELSE @,
                   !.ended = (nextTime = NoValue)]
            /\ UNCHANGED <<script, styles, scriptInfo, parsed, previous, input, player, pad>>

\* setTimeout(() => isGestureProcessing.current = false, 300)
GestureTimeout ==
    /\ watch.isGestureProcessing
    /\ watch' = [watch EXCEPT !.isGestureProcessing = FALSE]
    /\ UNCHANGED <<script, styles, events, scriptInfo, parsed, ret, previous, input, player, pad>>

StepNext == LoadSubtitles \/ NextSentence \/ GestureTimeout

SpecStep == InitStep /\ [][StepNext]_vars

(***************************************************************************)
(* SpecPlayer: the custom video player.  seek() sets the position of the    *)
(* video element, which then dispatches 'seeking' and, when the seek is     *)
(* done, 'seeked'; 'timeupdate' may be dispatched at any moment.  Time      *)
(* passes in ticks; a timer whose delay has passed runs at that tick or     *)
(* later.                                                                  *)
(***************************************************************************)
TickMs == 100

\* the delay of the setTimeout of handleSeeked
ignoreUpdatesMs == 500

\* the number of seek() calls in a behaviour
MaxSeeks == 3

InitPlayer ==
    /\ script = NoScript
    /\ styles = <<>>
    /\ events = <<>>
    /\ scriptInfo = EmptyObj
    /\ parsed = FALSE
    /\ ret = Call("new", 0, Null, TRUE)
    /\ previous = Null
    /\ input = Null
    /\ watch = Null
    /\ player = [isSeeking     |-> FALSE,       \* isSeekingRef.current
                 ignoreUpdates |-> FALSE,       \* ignoreUpdatesRef.current
                 seekRequested |-> FALSE,       \* 'seeking' is to be dispatched
                 inSeek        |-> FALSE,       \* 'seeking' dispatched, 'seeked' not yet
                 timers        |-> <<>>,        \* ms left of each pending setTimeout
                 sinceSeeked   |-> ignoreUpdatesMs,  \* ms since the last 'seeked', capped
                 seeks         |-> 0,           \* seek() calls so far
                 delivered     |-> FALSE]       \* the last step called onTimeUpdate
    /\ pad = Null

PlayerStep(next) ==
    /\ player' = next
    /\ UNCHANGED <<script, styles, events, scriptInfo, parsed, ret, previous, input, watch, pad>>

\* seek(time): videoRef.current.currentTime = safeTime
Seek ==
    /\ player.seeks < MaxSeeks
    /\ PlayerStep([player EXCEPT !.seekRequested = TRUE, !.seeks = @ + 1, !.delivered = FALSE])

\* the 'seeking' event
HandleSeeking ==
    /\ player.seekRequested
    /\ PlayerStep([player EXCEPT !.seekRequested = FALSE, !.inSeek = TRUE,
                                 !.isSeeking = TRUE, !.delivered = FALSE])

\* the 'seeked' event
HandleSeeked ==
    /\ player.inSeek /\ ~player.seekRequested
    /\ PlayerStep([player EXCEPT !.inSeek = FALSE, !.isSeeking = FALSE,
                                 !.ignoreUpdates = TRUE,
                                 !.timers = Append(@, ignoreUpdatesMs),
                                 !.sinceSeeked = 0, !.delivered = FALSE])

\* the 'timeupdate' event
HandleTimeUpdate ==
    /\ player' = [player EXCEPT !.delivered = ~(player.isSeeking \/ player.ignoreUpdates)]
    /\ UNCHANGED <<script, styles, events, scriptInfo, parsed, ret, previous, input, watch, pad>>

\* the callback of the setTimeout of handleSeeked
IgnoreTimeout ==
    /\ player.timers # <<>> /\ Head(player.timers) = 0
    /\ PlayerStep([player EXCEPT !.timers = Tail(@), !.ignoreUpdates = FALSE,
                                 !.delivered = TRUE])

Tick ==
    /\ \/ \E i \in 1..Len(player.timers) : player.timers[i] > 0
       \/ player.sinceSeeked < ignoreUpdatesMs
    /\ PlayerStep([player EXCEPT
           !.timers = [i \in 1..Len(@) |-> IF @[i] > TickMs THEN @[i] - TickMs ELSE 0],
           !.sinceSeeked = IF @ + TickMs > ignoreUpdatesMs THEN ignoreUpdatesMs ELSE @ + TickMs,
           !.delivered = FALSE])

PlayerNext == Seek \/ HandleSeeking \/ HandleSeeked \/ HandleTimeUpdate \/ IgnoreTimeout \/ Tick

SpecPlayer == InitPlayer /\ [][PlayerNext]_vars

(***************************************************************************)
(* SpecPad: the gesture trackpad.  Start, move and end events, the          *)
(* long-press timeouts and the rapid-seek interval interleave freely; the   *)
(* component is rendered between two of them, so a handler reads the        *)
(* activeGesture of the state it starts in for its whole run.               *)
(***************************************************************************)
SWIPE_THRESHOLD_PX == 30
LONG_PRESS_MS == 500
TAP_DEBOUNCE_MS == 300
RAPID_SEEK_MS == 700

\* the number of start events in a behaviour
MaxStarts == 2

\* where clientX lies: in the left edge zone, between the zones, in the right one
HoldZones == {"left", "center", "right"}

\* the (deltaX, deltaY) of a move event
MoveDeltas == {<<0, 0>>, <<-40, 0>>, <<40, 0>>, <<0, -40>>, <<0, 40>>}


PadCall(fn, arg) == [fn |-> fn, arg |-> arg]

InitPad ==
    /\ script = NoScript
    /\ styles = <<>>
    /\ events = <<>>
    /\ scriptInfo = EmptyObj
    /\ parsed = FALSE
    /\ ret = Call("new", 0, Null, TRUE)
    /\ previous = Null
    /\ input = Null
    /\ watch = Null
    /\ player = Null
    /\ pad = [activeGesture  |-> "none",
              swipeDeltaX    |-> 0,
              swipeDeltaY    |-> 0,
              touchStart     |-> FALSE,   \* touchStartX.current is not null
              longPressTimer |-> 0,       \* the id in longPressTimer.current, 0 for null
              rapidSeekTimer |-> Null,    \* the interval: its direction and the ms left
              isDragging     |-> FALSE,
              sinceTap       |-> TAP_DEBOUNCE_MS + TickMs,  \* Date.now() - lastTapTime.current, capped
              timeouts       |-> <<>>,    \* the pending setTimeout callbacks of handleStart
              looping        |-> FALSE,   \* onLoopStart called, onLoopEnd not yet
              starts         |-> 0,
              calls          |-> <<>>]    \* the callbacks the last step invoked

PadStep(next) ==
    /\ pad' = next
    /\ UNCHANGED <<script, styles, events, scriptInfo, parsed, ret, previous, input, watch, player>>

startRapidSeek(p, direction) ==
    IF p.rapidSeekTimer # Null
    THEN p
    ELSE [p EXCEPT !.calls = Append(@, PadCall("onRapidSeek", direction)),
                   !.rapidSeekTimer = <<[direction |-> direction, left |-> RAPID_SEEK_MS]>>]

stopRapidSeek(p) == [p EXCEPT !.rapidSeekTimer = Null]

\* clearTimeout(longPressTimer.current); longPressTimer.current = null
clearLongPress(p) ==
    IF p.longPressTimer = 0
    THEN p
    ELSE [p EXCEPT !.timeouts = SelectSeq(@, LAMBDA t : t.id # p.longPressTimer),
                   !.longPressTimer = 0]

handleStart(p, zone) ==
    [p EXCEPT !.touchStart = TRUE,
              !.isDragging = FALSE,
              !.swipeDeltaX = 0,
              !.swipeDeltaY = 0,
              !.activeGesture = "tap",
              !.longPressTimer = p.starts + 1,
              !.timeouts = Append(@, [id |-> p.starts + 1, zone |-> zone, left |-> LONG_PRESS_MS]),
              !.starts = @ + 1]

\* the callback of the setTimeout of handleStart
longPress(p, zone) ==
    IF p.isDragging
    THEN p
    ELSE IF zone = "left"
         THEN startRapidSeek([p EXCEPT !.activeGesture = "hold-left"], "prev")
         ELSE IF zone = "right"
              THEN startRapidSeek([p EXCEPT !.activeGesture = "hold-right"], "next")
              ELSE [p EXCEPT !.activeGesture = "hold-center",
                             !.calls = Append(@, PadCall("onLoopStart", "")),
                             !.looping = TRUE]

dragToHold(p, zone) ==
    IF p.activeGesture \notin {"swipe-h", "hold-left", "hold-right"}
    THEN p
    ELSE IF zone = "left"
         THEN IF p.activeGesture # "hold-left"
              THEN startRapidSeek([p EXCEPT !.activeGesture = "hold-left"], "prev")
              ELSE p
         ELSE IF zone = "right"
              THEN IF p.activeGesture # "hold-right"
                   THEN startRapidSeek([p EXCEPT !.activeGesture = "hold-right"], "next")
                   ELSE p
              ELSE IF p.activeGesture \in {"hold-left", "hold-right"}
                   THEN [stopRapidSeek(p) EXCEPT !.activeGesture = "swipe-h"]
                   ELSE p

handleMove(p, deltaX, deltaY, zone) ==
    IF ~p.touchStart
    THEN p
    ELSE IF ~p.isDragging /\ p.activeGesture = "hold-center"
    THEN p
    ELSE LET crossed == /\ ~p.isDragging
                        /\ (Abs(deltaX) > SWIPE_THRESHOLD_PX \/ Abs(deltaY) > SWIPE_THRESHOLD_PX)
             p1 == IF crossed
                   THEN clearLongPress([p EXCEPT !.isDragging = TRUE])
                   ELSE p
             shown == IF crossed
                      THEN IF Abs(deltaX) > Abs(deltaY) THEN "swipe-h" ELSE "swipe-v"
                      ELSE p.activeGesture
         IN  IF ~p1.isDragging
             THEN p1
             ELSE LET p2 == dragToHold([p1 EXCEPT !.swipeDeltaX = deltaX, !.swipeDeltaY = deltaY], zone)
                  IN  \* the handler reads the activeGesture of its render; the last
                      \* setActiveGesture call of the run is the one that stays
                      IF p2.activeGesture # p.activeGesture
                      THEN p2
                      ELSE [p2 EXCEPT !.activeGesture = shown]

handleEnd(p) ==
    LET p1 == stopRapidSeek(clearLongPress(p))
        tapped == p.activeGesture = "tap" /\ ~p.isDragging /\ p.sinceTap > TAP_DEBOUNCE_MS
        acted == IF p.activeGesture = "swipe-h"
                 THEN IF p.swipeDeltaX < -SWIPE_THRESHOLD_PX
                      THEN <<PadCall("onPrevSentence", "")>>
                      ELSE IF p.swipeDeltaX > SWIPE_THRESHOLD_PX
                           THEN <<PadCall("onNextSentence", "")>>
                           ELSE <<>>
                 ELSE IF p.activeGesture = "swipe-v"
                      THEN IF p.swipeDeltaY < -30 THEN <<PadCall("onAnalyze", "")>> ELSE <<>>
                      ELSE IF tapped THEN <<PadCall("onTogglePlay", "")>> ELSE <<>>
        ended == p.activeGesture = "hold-center"
    IN  [p1 EXCEPT !.calls = @ \o acted \o (IF ended THEN <<PadCall("onLoopEnd", "")>> ELSE <<>>),
                   !.sinceTap = IF tapped THEN 0 ELSE @,
                   !.looping = IF ended THEN FALSE ELSE @,
                   !.touchStart = FALSE,
                   !.activeGesture = "none",
                   !.swipeDeltaX = 0,
                   !.swipeDeltaY = 0,
                   !.isDragging = FALSE]

Quiet(p) == [p EXCEPT !.calls = <<>>]

\* onTouchStart, onMouseDown
HandleStart ==
    /\ pad.starts < MaxStarts
    /\ \E zone \in HoldZones : PadStep(handleStart(Quiet(pad), zone))

\* onTouchMove, onMouseMove
HandleMove ==
    /\ pad.touchStart
    /\ \E d \in MoveDeltas, zone \in HoldZones :
           PadStep(handleMove(Quiet(pad), d[1], d[2], zone))

\* onTouchEnd, onMouseUp, onMouseLeave
HandleEnd ==
    /\ pad.starts > 0
    /\ \E leave \in BOOLEAN :
           /\ leave => pad.touchStart
           /\ PadStep(handleEnd(Quiet(pad)))

LongPress ==
    /\ pad.timeouts # <<>> /\ Head(pad.timeouts).left = 0
    /\ PadStep(longPress([Quiet(pad) EXCEPT !.timeouts = Tail(@)], Head(pad.timeouts).zone))

\* the callback of the setInterval of startRapidSeek
RapidSeek ==
    /\ pad.rapidSeekTimer # Null /\ pad.rapidSeekTimer[1].left = 0
    /\ PadStep([pad EXCEPT !.calls = <<PadCall("onRapidSeek", pad.rapidSeekTimer[1].direction)>>,
                           !.rapidSeekTimer = <<[@[1] EXCEPT !.left = RAPID_SEEK_MS]>>])

Elapse(ms) == IF ms > TickMs THEN ms - TickMs ELSE 0

PadTick ==
    /\ \/ \E i \in 1..Len(pad.timeouts) : pad.timeouts[i].left > 0
       \/ pad.rapidSeekTimer # Null /\ pad.rapidSeekTimer[1].left > 0
       \/ pad.sinceTap <= TAP_DEBOUNCE_MS
    /\ PadStep([pad EXCEPT
           !.timeouts = [i \in 1..Len(@) |-> [@[i] EXCEPT !.left = Elapse(@)]],
           !.rapidSeekTimer = IF @ = Null THEN @ ELSE <<[@[1] EXCEPT !.left = Elapse(@)]>>,
           !.sinceTap = IF @ > TAP_DEBOUNCE_MS THEN @ ELSE @ + TickMs,
           !.calls = <<>>])

PadNext == HandleStart \/ HandleMove \/ HandleEnd \/ LongPress \/ RapidSeek \/ PadTick

SpecPad == InitPad /\ [][PadNext]_vars

(***************************************************************************)
(* Claims                                                                  *)
(***************************************************************************)
Range(seq) == {seq[i] : i \in 1..Len(seq)}

Count(seq, e) == Cardinality({i \in 1..Len(seq) : seq[i] = e})

MinOf(S) == CHOOSE x \in S : \A y \in S : x <= y

MaxOf(S) == CHOOSE x \in S : \A y \in S : x >= y

Starts(evs) == [i \in 1..Len(evs) |-> evs[i].startTime]

Ends(evs) == [i \in 1..Len(evs) |-> evs[i].endTime]

StyleOf(e) == IF has(e.props, K_Style) THEN <<e.props[K_Style]>> ELSE Null

\* Scenario A: the single track Hanzi with events [1.00,5.00], [6.00,10.00],
\* [11.00,15.00]
ScenarioA ==
    /\ parsed
    /\ Starts(events) = <<1000, 6000, 11000>>
    /\ Ends(events) = <<5000, 10000, 15000>>
    /\ \A i \in 1..3 : StyleOf(events[i]) = <<N_Hanzi>>

\* C1: after a successful parse, activeEventsAt(t) returns exactly the stored
\* events with start <= t <= end: each such event as often as it is stored,
\* and no other event.
C1_ActiveExact ==
    (ret.op = "getActiveSubtitles" /\ parsed) =>
        \A e \in Range(events) \cup Range(ret.value) :
            Count(ret.value, e) =
                IF e.startTime <= ret.t /\ ret.t <= e.endTime THEN Count(events, e) ELSE 0

\* C1 witness: in Scenario A, activeEventsAt(2.5) has returned the first event only
C1_Witness ==
    /\ ScenarioA
    /\ ret.op = "getActiveSubtitles" /\ ret.t = 2500
    /\ ret.value = <<events[1]>>

\* the navigable events of the main track
MainNavigable == getNavigableEvents(Store, Null)

\* C2: after a successful parse, nextEventTime(t) is the start of the earliest
\* navigable event of the main track whose start is strictly greater than
\* t + 0.05 s, and none exactly when there is no such event.
C2_NextIsEarliestAfter ==
    (ret.op = "getNextEventTime" /\ parsed) =>
        LET later == {s \in Range(Starts(MainNavigable)) : s > ret.t + 50}
        IN  IF later = {} THEN ret.value = NoValue ELSE ret.value = MinOf(later)

\* C2 witness: in Scenario A, nextEventTime(2.5) has returned 6.0
C2_Witness ==
    /\ ScenarioA
    /\ ret.op = "getNextEventTime" /\ ret.t = 2500
    /\ ret.value = 6000

\* C3: after a successful parse, prevEventTime(t) is the start of the latest
\* navigable event whose start is strictly less than t - 0.05 s, and none
\* exactly when there is no such event.
C3_PrevIsLatestBefore ==
    (ret.op = "getPrevEventTime" /\ parsed) =>
        LET earlier == {s \in Range(Starts(MainNavigable)) : s < ret.t - 50}
        IN  IF earlier = {} THEN ret.value = NoValue ELSE ret.value = MaxOf(earlier)

\* C3 witness: with two navigable events before t, the later start is returned
C3_Witness ==
    /\ parsed
    /\ ret.op = "getPrevEventTime" /\ ret.t = 6051
    /\ Len(MainNavigable) >= 2
    /\ MainNavigable[1].startTime < MainNavigable[2].startTime
    /\ ret.value = MainNavigable[2].startTime

\* t lies inside the first navigable event of the main track
InsideFirst(t) ==
    /\ MainNavigable # <<>>
    /\ MainNavigable[1].startTime <= t /\ t <= MainNavigable[1].endTime

\* C4 as stated: in Scenario A prevEventTime(2.5) returns none, and whenever
\* t lies inside the first navigable event prevEventTime(t) returns none.
C4_PrevInsideFirstIsNone ==
    (ret.op = "getPrevEventTime" /\ parsed /\ InsideFirst(ret.t)) => ret.value = NoValue

\* C4 amended: when t lies inside the first navigable event, prevEventTime(t)
\* returns none only while t is at most 0.05 s after that event's start; later
\* than that it returns a start time, never earlier than the first event's own
\* start; in Scenario A prevEventTime(2.5) returns 1.0.
C4_PrevInsideFirst ==
    (ret.op = "getPrevEventTime" /\ parsed /\ InsideFirst(ret.t)) =>
        /\ (ret.t <= MainNavigable[1].startTime + 50) => ret.value = NoValue
        /\ (ret.t > MainNavigable[1].startTime + 50) =>
               /\ ret.value >= MainNavigable[1].startTime
               /\ ret.value < ret.t - 50
        /\ (ScenarioA /\ ret.t = 2500) => ret.value = 1000

\* C4 witness: in Scenario A, prevEventTime(2.5) has returned 1.0
C4_Witness ==
    /\ ScenarioA
    /\ ret.op = "getPrevEventTime" /\ ret.t = 2500
    /\ InsideFirst(ret.t)
    /\ ret.value = 1000

\* the deduplicated events getNavigableEvents hands to the merge step
DedupedFor(requestedStyle) == dedupeEventsByStart(validEventsOf(Store, requestedStyle))

\* the adjacent-merge rule in the words of the claim: an event is absorbed
\* into the previously kept one iff the normalized texts are equal and it
\* starts at or before the kept end or at most 0.18 s after it
Absorbed(kept, e) ==
    /\ kept # <<>>
    /\ normalizeEventText(kept[Len(kept)]) = normalizeEventText(e)
    /\ \/ e.startTime <= kept[Len(kept)].endTime
       \/ e.startTime - kept[Len(kept)].endTime <= 180

RuleStep(kept, e) ==
    IF Absorbed(kept, e)
    THEN [kept EXCEPT ![Len(kept)].endTime =
              IF e.endTime > kept[Len(kept)].endTime THEN e.endTime ELSE @]
    ELSE Append(kept, e)

RECURSIVE RuleMerge(_, _, _)
RuleMerge(evs, i, kept) ==
    IF i > Len(evs) THEN kept ELSE RuleMerge(evs, i + 1, RuleStep(kept, evs[i]))

HasDuration(e) == e.endTime > e.startTime

\* C5 as stated: every deduplicated event is either absorbed by the rule or
\* emitted as a new navigable event.
C5_MergeRuleAllEvents ==
    (ret.op = "getNavigableEvents" /\ parsed) =>
        ret.value = RuleMerge(DedupedFor(ret.style), 1, <<>>)

\* C5 amended: a deduplicated event whose end is not after its start is
\* skipped, neither absorbed nor emitted; every other deduplicated event is
\* absorbed into the previously kept event (end := the larger end, start
\* unchanged) iff the normalized texts are equal and it starts at or before the
\* kept end or at most 0.18 s after it, and is otherwise emitted.
C5_MergeRule ==
    (ret.op = "getNavigableEvents" /\ parsed) =>
        ret.value = RuleMerge(SelectSeq(DedupedFor(ret.style), HasDuration), 1, <<>>)

\* C5 witness: the fragments [2.00,2.14] and [2.15,3.00] of one text have
\* been merged into the single navigable event [2.00,3.00]
C5_Witness ==
    /\ parsed /\ ret.op = "getNavigableEvents"
    /\ script.lines = <<"P", "Q">>
    /\ Len(DedupedFor(ret.style)) = 2
    /\ Starts(ret.value) = <<2000>> /\ Ends(ret.value) = <<3000>>

\* C6 as stated: every event navigableEvents returns belongs to one single
\* track, the requested one if a track is pinned.
C6_SingleTrack ==
    (ret.op = "getNavigableEvents") =>
        /\ \A i, j \in 1..Len(ret.value) : StyleOf(ret.value[i]) = StyleOf(ret.value[j])
        /\ ret.style # Null => \A i \in 1..Len(ret.value) : StyleOf(ret.value[i]) = ret.style

\* the main track in the words of the claim: the known track that equals,
\* ignoring case, the earliest entry of the preference list matching any known
\* track, else the first known track
PreferenceList ==
    <<P_Mandarin, P_Chinese, P_Mandarin \o P_Simplified, P_Chinese \o P_Simplified,
      P_CHS, D_Default>>

Known == [i \in 1..Len(styles) |-> styles[i][K_Name]]

MatchesOf(i) == {k \in 1..Len(Known) : toLowerCase(Known[k]) = toLowerCase(PreferenceList[i])}

ExpectedMain ==
    LET hits == {i \in 1..Len(PreferenceList) : MatchesOf(i) # {}}
    IN  IF hits = {} THEN Known[1] ELSE Known[MinOf(MatchesOf(MinOf(hits)))]

FieldOf(e, key) == LET f == getField(e.props, key, <<>>) IN IF f = <<>> THEN <<>> ELSE f[1]

LineOfEvent(e) == Ln(FieldOf(e, K_Start), FieldOf(e, K_End), FieldOf(e, K_Style), FieldOf(e, K_Text))

\* the lines of the pools that decode to an event, and the lines that do not
GoodLines == {"A", "B", "C", "D", "E", "F", "G", "J", "K", "P", "Q", "R", "T", "N"}

BadLines == {"H", "I", "L"}

IsGood(n) == n \in GoodLines

\* the start of each good line, in ms
StartMs == [A |-> 1000, B |-> 6000, C |-> 11000, D |-> 5180, E |-> 5181, F |-> 1000,
            G |-> 1000, J |-> 1050, K |-> 6000, P |-> 2000, Q |-> 2150, R |-> 2140,
            T |-> 1000, N |-> 1000]

\* C8: in every state reachable by parse and reset calls, every stored event
\* has a decoded start, a decoded end and a non-empty clean text; the lines
\* that lack one of them are never stored, and parse reports success.
C8_Retention ==
    /\ \A i \in 1..Len(events) :
          /\ events[i].startTime # NoValue
          /\ events[i].endTime # NoValue
          /\ has(events[i].props, K_cleanText) /\ events[i].props[K_cleanText] # <<>>
          /\ \A n \in BadLines : LineOfEvent(events[i]) # LineOf[n]
    /\ (ret.op = "parse" /\ script.isText) => ret.value = TRUE

\* C8 witness: a parse has kept the good line and dropped a line that lacks a
\* decoded start, an End field or a clean text
C8_Witness ==
    /\ ret.op = "parse" /\ ret.value = TRUE
    /\ Len(script.lines) = 2
    /\ \E i \in 1..2 : script.lines[i] \in BadLines
    /\ Len(events) = 1

\* C9: after every successful parse the stored events are in ascending order
\* of start, and the events of one start keep the order their lines have in
\* the script.
C9_Order ==
    (ret.op = "parse" /\ ret.value = TRUE) =>
        LET good == SelectSeq(script.lines, IsGood)
        IN  /\ Len(events) = Len(good)
            /\ \A i \in 1..(Len(events) - 1) : events[i].startTime <= events[i + 1].startTime
            /\ \A v \in Range(Starts(events)) :
                  LET sameStart(e) == e.startTime = v
                      startsAtV(n) == StartMs[n] = v
                      inStore  == SelectSeq(events, sameStart)
                      inScript == SelectSeq(good, startsAtV)
                  IN  /\ Len(inStore) = Len(inScript)
                      /\ \A k \in 1..Len(inStore) :
                            LineOfEvent(inStore[k]) = LineOf[inScript[k]]

\* C9 witness: a script whose lines are out of order and hold two different
\* events of one start has been parsed
C9_Witness ==
    /\ ret.op = "parse" /\ ret.value = TRUE
    /\ script.lines = <<"B", "F", "A">>
    /\ Starts(events) = <<1000, 1000, 6000>>
    /\ events[1] # events[2]

\* C10: parse succeeds on every script text; a dialogue line with an
\* unparseable timestamp is dropped, the other lines are stored, and
\* stats().totalEvents counts the stored lines only.
C10_LineTolerance ==
    LET good == SelectSeq(script.lines, IsGood)
    IN  /\ (ret.op = "parse" /\ script.isText) =>
              /\ ret.value = TRUE /\ parsed
              /\ Len(events) = Len(good)
              /\ \A n \in Range(good) :
                    Cardinality({i \in 1..Len(events) : LineOfEvent(events[i]) = LineOf[n]})
                        = Cardinality({i \in 1..Len(good) : LineOf[good[i]] = LineOf[n]})
        /\ (ret.op = "getStats" /\ script.isText) => ret.value.totalEvents = Len(good)

\* C10 witness: stats() after the parse of a script with a "bad:time" line
\* and a good line counts one event
C10_Witness ==
    /\ ret.op = "getStats" /\ parsed
    /\ Len(script.lines) = 2
    /\ \E i \in 1..2 : script.lines[i] = "H"
    /\ ret.value.totalEvents = 1
    /\ LineOfEvent(events[1]) = LnA

\* the store of an instance that has just been constructed
FreshStore == [styles |-> <<>>, events |-> <<>>, scriptInfo |-> EmptyObj, parsed |-> FALSE]

\* parse(B) alone on a fresh instance
AloneOnFresh == parse(FreshStore, ContentOf(script))

\* C11: after parse(A) followed by parse(B) on one instance, the store and the
\* result of parse are those of parse(B) alone on a fresh instance, and
\* every query returns what it returns on that fresh instance.
C11_ReparseIsolation ==
    LET alone == AloneOnFresh.store
    IN  previous # Null =>
          /\ Store = alone
          /\ ret.op = "parse" => ret.value = AloneOnFresh.ok
          /\ ret.op = "getActiveSubtitles" => ret.value = getActiveSubtitles(alone, ret.t)
          /\ ret.op = "getActiveSubtitlesByStyle" =>
                ret.value = getActiveSubtitlesByStyle(alone, ret.t)
          /\ ret.op = "getNavigableEvents" => ret.value = getNavigableEvents(alone, ret.style)
          /\ ret.op = "getNextEventTime" => ret.value = getNextEventTime(alone, ret.t)
          /\ ret.op = "getPrevEventTime" => ret.value = getPrevEventTime(alone, ret.t)
          /\ ret.op = "getStats" => ret.value = getStats(alone)
          /\ getEvents(Store) = getEvents(alone)
          /\ getAvailableStyles(Store) = getAvailableStyles(alone)

\* C11 witness: the three Hanzi events and the two styles of a first script
\* were in the store, a script with no style table and one line of the track
\* Default has been parsed over them, and stats() has been called
C11_Witness ==
    /\ previous = <<Script("HP", "explicit", <<"A", "B", "C">>)>>
    /\ script = Script("none", "explicit", <<"K">>)
    /\ ret.op = "getStats"
    /\ ret.value.totalEvents = 1 /\ ret.value.languageCount = 0
    /\ Starts(events) = <<6000>>

\* the instance is not ready: no successful parse yet, reset() called since,
\* or a successful parse that retained no event
NotReady == ~parsed \/ events = <<>>

\* C12: on an instance that is not ready, activeEventsAt and navigableEvents
\* return empty lists, activeEventsByTrack returns an empty mapping, and
\* nextEventTime and prevEventTime return none.
C12_NotReadyQueries ==
    NotReady =>
        /\ ret.op = "getActiveSubtitles" => ret.value = <<>>
        /\ ret.op = "getNavigableEvents" => ret.value = <<>>
        /\ ret.op = "getActiveSubtitlesByStyle" => ret.value = <<>>
        /\ ret.op = "getNextEventTime" => ret.value = NoValue
        /\ ret.op = "getPrevEventTime" => ret.value = NoValue

\* C12 witness: a parse has succeeded on a script whose only dialogue line is
\* dropped, and activeEventsByTrack has been called on the empty store
C12_Witness ==
    /\ parsed /\ events = <<>> /\ styles # <<>>
    /\ script.lines # <<>>
    /\ ret.op = "getActiveSubtitlesByStyle" /\ ret.value = <<>>

C14_Monotonic ==
    /\ ret.op = "getNextEventTime" =>
          \A t2 \in NextTimes :
              LET later == getNextEventTime(Store, t2)
              IN  (ret.t < t2 /\ ret.value # NoValue /\ later # NoValue) => ret.value <= later
    /\ ret.op = "getPrevEventTime" =>
          \A t2 \in PrevTimes :
              LET later == getPrevEventTime(Store, t2)
              IN  (ret.t < t2 /\ ret.value # NoValue /\ later # NoValue) => ret.value <= later

\* C14 witness: nextEventTime has returned 1.0 at a time for which a later
\* query time has the answer 6.0, and prevEventTime has two different
\* answers at two times as well
C14_Witness ==
    /\ ret.op = "getNextEventTime" /\ ret.t = 949 /\ ret.value = 1000
    /\ getNextEventTime(Store, 2500) = 6000
    /\ getPrevEventTime(Store, 2500) = 1000
    /\ getPrevEventTime(Store, 6051) = 6000

\* the deduplicated events of the track that have a duration, in store order
Candidates(requestedStyle) == SelectSeq(DedupedFor(requestedStyle), HasDuration)

\* the candidates whose span went into the k-th navigable event: those that
\* start at or after its start and before the start of the next one
Group(navigable, k, requestedStyle) ==
    {d \in Range(Candidates(requestedStyle)) :
        /\ d.startTime >= navigable[k].startTime
        /\ k < Len(navigable) => d.startTime < navigable[k + 1].startTime}

\* C15: every navigable event ends strictly after it starts, descends from a
\* stored event that does, and ends at the maximum of the ends of the events
\* it absorbed.
C15_EndAfterStart ==
    (ret.op = "getNavigableEvents" /\ parsed) =>
        \A k \in 1..Len(ret.value) :
            LET group == Group(ret.value, k, ret.style)
            IN  /\ ret.value[k].endTime > ret.value[k].startTime
                /\ \E d \in group : d.startTime = ret.value[k].startTime
                /\ ret.value[k].endTime = MaxOf({d.endTime : d \in group})

\* C15 witness: [1.00,5.00], [5.18,6.00] and [5.181,5.5] of one text have
\* become the navigable event [1.00,6.00]; the last absorbed end is earlier
\* than the end kept
C15_Witness ==
    /\ parsed /\ ret.op = "getNavigableEvents"
    /\ script.lines = <<"A", "D", "E">>
    /\ Ends(Candidates(ret.style)) = <<5000, 6000, 5500>>
    /\ Starts(ret.value) = <<1000>> /\ Ends(ret.value) = <<6000>>

\* C16: every stored event whose span was absorbed into a navigable event has
\* the normalized text of that navigable event.
C16_NoMergeAcrossTexts ==
    (ret.op = "getNavigableEvents" /\ parsed) =>
        \A k \in 1..Len(ret.value) :
            \A d \in Group(ret.value, k, ret.style) :
                normalizeEventText(d) = normalizeEventText(ret.value[k])

\* C16 witness: a differently worded event [2.14,2.15] lies between the two
\* fragments [2.00,2.14] and [2.15,3.00] of one text and touches the first;
\* the three events are navigable events of their own
C16_Witness ==
    /\ parsed /\ ret.op = "getNavigableEvents"
    /\ script.lines = <<"P", "R", "Q">>
    /\ Starts(ret.value) = <<2000, 2140, 2150>>
    /\ Ends(ret.value) = <<2140, 2150, 3000>>
    /\ normalizeEventText(ret.value[1]) = normalizeEventText(ret.value[3])
    /\ normalizeEventText(ret.value[1]) # normalizeEventText(ret.value[2])

\* C17: in the output of start-time dedup no event starts within 1 ms of the
\* event kept before it, the first event of the input is kept, every input
\* event starts within 1 ms of a kept one, and dedup of the output returns
\* the output.
C17_DedupIdempotent ==
    (ret.op = "getNavigableEvents" /\ parsed) =>
        LET in  == validEventsOf(Store, ret.style)
            out == dedupeEventsByStart(in)
        IN  /\ \A k \in 2..Len(out) : Abs(out[k].startTime - out[k - 1].startTime) >= 1
            /\ in # <<>> => (out # <<>> /\ out[1] = in[1])
            /\ \A j \in 1..Len(in) : \E k \in 1..Len(out) : Abs(in[j].startTime - out[k].startTime) < 1
            /\ dedupeEventsByStart(out) = out
            /\ ret.value = mergeAdjacentDuplicateEvents(out)

\* C17 witness: two different events of the track start at 1.00; the first
\* of them in the store and the event at 6.00 are what dedup keeps
C17_Witness ==
    /\ parsed /\ ret.op = "getNavigableEvents"
    /\ Starts(validEventsOf(Store, ret.style)) = <<1000, 1000, 6000>>
    /\ validEventsOf(Store, ret.style)[1] # validEventsOf(Store, ret.style)[2]
    /\ dedupeEventsByStart(validEventsOf(Store, ret.style))
          = <<validEventsOf(Store, ret.style)[1], validEventsOf(Store, ret.style)[3]>>

\* the track name of an event: its Style property, Default when it has none
TrackOf(e) == IF has(e.props, K_Style) /\ e.props[K_Style] # <<>> THEN e.props[K_Style] ELSE D_Default

\* the position in evs of the first event of track k
FirstOfTrack(evs, k) == MinOf({i \in 1..Len(evs) : TrackOf(evs[i]) = k})

\* C18 as stated: activeEventsByTrack(t) partitions activeEventsAt(t) by track
\* name, the group of key k holding exactly the active events of track k,
\* and the keys are in the order in which their tracks are first met.
C18_PartitionInScanOrder ==
    (ret.op = "getActiveSubtitlesByStyle") =>
        LET active == getActiveSubtitles(Store, ret.t)
            groups == ret.value
        IN  /\ \A i, j \in 1..Len(groups) : groups[i].key = groups[j].key => i = j
            /\ \A i \in 1..Len(active) : \E g \in 1..Len(groups) : groups[g].key = TrackOf(active[i])
            /\ \A g \in 1..Len(groups) :
                  LET ofTrack(e) == TrackOf(e) = groups[g].key
                  IN  groups[g].events # <<>> /\ groups[g].events = SelectSeq(active, ofTrack)
            /\ \A g, h \in 1..Len(groups) :
                  g < h => FirstOfTrack(active, groups[g].key) < FirstOfTrack(active, groups[h].key)

\* the same query asked again of the present store
AskedAgain ==
    IF ret.op = "getActiveSubtitles" THEN getActiveSubtitles(Store, ret.t)
    ELSE IF ret.op = "getActiveSubtitlesByStyle" THEN getActiveSubtitlesByStyle(Store, ret.t)
    ELSE IF ret.op = "getNavigableEvents" THEN getNavigableEvents(Store, ret.style)
    ELSE IF ret.op = "getNextEventTime" THEN getNextEventTime(Store, ret.t)
    ELSE IF ret.op = "getPrevEventTime" THEN getPrevEventTime(Store, ret.t)
    ELSE IF ret.op = "getStats" THEN getStats(Store)
    ELSE ret.value

EncodeMs(n) ==
    Decimal(n \div 3600000) \o <<":">> \o TwoDigits((n \div 60000) % 60) \o <<":">>
    \o TwoDigits((n \div 1000) % 60) \o <<".">> \o ThreeDigits(n % 1000)

\* C20: a timestamp H:MM:SS.f with a fraction of 1, 2 or 3 digits decodes to
\* H*3600 + MM*60 + SS seconds plus the fraction read as tenths, hundredths
\* or thousandths of a second, and decoding the 3-digit encoding of a
\* millisecond count gives that count.
C20_TimestampDecode ==
    ret.op = "parseTimestamp" =>
        LET expected == input.h * 3600000 + input.m * 60000 + input.s * 1000 + input.frac.ms
        IN  /\ ret.value = expected
            /\ parseTimestamp(EncodeMs(expected)) = expected
            /\ Len(input.frac.text) = 3 => EncodeMs(expected) = RenderTimestamp(input)

\* C20 witness: "1:02:03.5" has been decoded to 3723.5 s
C20_Witness ==
    /\ ret.op = "parseTimestamp"
    /\ RenderTimestamp(input) = <<"1", ":", "0", "2", ":", "0", "3", ".", "5">>
    /\ ret.value = 3723500

\* the texts made of an optional run of digits and ':', then the minutes in
\* one of the given numbers of digits, ':', two digits of seconds, and
\* optionally one of the given separators with 1 to 3 digits
InGrammar(t, minuteLens, seps) ==
    \E hl \in 0..Len(t), ml \in minuteLens, fl \in 0..3 :
        LET hEnd  == IF hl = 0 THEN 0 ELSE hl + 1
            mEnd  == hEnd + ml
            sEnd  == mEnd + 3
            total == IF fl = 0 THEN sEnd ELSE sEnd + 1 + fl
        IN  /\ Len(t) = total
            /\ \A i \in 1..hl : t[i] \in Digits
            /\ hl > 0 => t[hEnd] = ":"
            /\ \A i \in (hEnd + 1)..mEnd : t[i] \in Digits
            /\ t[mEnd + 1] = ":"
            /\ t[mEnd + 2] \in Digits /\ t[mEnd + 3] \in Digits
            /\ fl > 0 => (t[sEnd + 1] \in seps /\ \A i \in (sEnd + 2)..total : t[i] \in Digits)

\* [H:]MM:SS[.fff] as the specification words it
SpecGrammar(t) == InGrammar(t, {2}, {"."})

\* the same with minutes of one or two digits and '.' or ',' before the fraction
LenientGrammar(t) == InGrammar(t, {1, 2}, {".", ","})

\* C21 as stated: a timestamp text that does not match [H:]MM:SS[.fff] with
\* two-digit minutes and a '.' before the fraction decodes to no value, and
\* no stored event owns such a text as its Start or End.
C21_StrictGrammar ==
    (ret.op = "parseEvent" /\ input.conv = "field") =>
        /\ ~SpecGrammar(input.text) => parseTimestamp(input.text) = NoValue
        /\ \A e \in Range(ret.value) :
               SpecGrammar(e.props[K_Start]) /\ SpecGrammar(e.props[K_End])

\* C21: a timestamp text decodes to a value exactly when it is an optional
\* hour and ':', minutes of one or two digits, ':', seconds of two digits and
\* optionally '.' or ',' with 1 to 3 digits; any other text decodes to no
\* value, no stored event owns one as its Start or End, and the line that
\* carries one as a whole field stores nothing.
C21_TimestampGrammar ==
    (ret.op = "parseEvent" /\ input.conv = "field") =>
        /\ LenientGrammar(input.text) <=> parseTimestamp(input.text) # NoValue
        /\ \A e \in Range(ret.value) :
               LenientGrammar(e.props[K_Start]) /\ LenientGrammar(e.props[K_End])
        /\ (~LenientGrammar(input.text) /\ indexOf(input.text, ",") = 0) => ret.value = <<>>

\* C21 witness: the line whose Start is "0:00:1.00", seconds of one digit,
\* has been handled and no event was stored
C21_Witness ==
    /\ ret.op = "parseEvent"
    /\ input.at = "Start"
    /\ input.text = <<"0", ":", "0", "0", ":", "1", ".", "0", "0">>
    /\ ret.value = <<>>

\* the hex digits of a colour value, after the marker &H when it is there
HexDigitsOf(colour) ==
    IF Len(colour) >= 2 /\ colour[1] = "&" /\ colour[2] = "H"
    THEN SubSeq(colour, 3, Len(colour)) ELSE colour

\* '#' red green blue from the last six digits read as blue, green, red
FromLastSix(hex) ==
    LET six == SubSeq(hex, Len(hex) - 5, Len(hex))
    IN  <<"#">> \o SubSeq(six, 5, 6) \o SubSeq(six, 3, 4) \o SubSeq(six, 1, 2)

\* C22: the display colour of a style is '#' followed by the red, green and
\* blue pairs of the last six hex digits of its primary colour, so the two
\* leading opacity digits of an 8-digit value have no influence and
\* &H0000FF00 gives #00FF00.
C22_ColourFromLastSix ==
    (ret.op = "parseStyle" /\ Len(HexDigitsOf(input.text)) >= 6) =>
        /\ Len(ret.value) = 1
        /\ ret.value[1][K_cssColor] = FromLastSix(HexDigitsOf(input.text))

\* the positions of the commas of a text
CommasOf(t) == {i \in 1..Len(t) : t[i] = ","}

\* the position of the k-th comma of t; 0 for k = 0 and Len(t) + 1 when t
\* has fewer than k commas
NthComma(t, k) ==
    IF k = 0 THEN 0
    ELSE IF k > Cardinality(CommasOf(t)) THEN Len(t) + 1
    ELSE CHOOSE i \in CommasOf(t) : Cardinality({j \in CommasOf(t) : j < i}) = k - 1

\* the number of comma-separated tokens of t
TokenCount(t) == Cardinality(CommasOf(t)) + 1

\* the text the i-th of n declared fields is to hold: the i-th token, or for
\* the last field everything after the (n-1)th comma
FieldText(t, i, n) ==
    IF i = n THEN SubSeq(t, NthComma(t, n - 1) + 1, Len(t))
    ELSE SubSeq(t, NthComma(t, i - 1) + 1, NthComma(t, i) - 1)

\* the declared field names of a format of the pool
DeclaredFields ==
    [F3 |-> <<K_Start, K_End, K_Text>>,
     F4 |-> <<K_Start, K_End, K_Style, K_Text>>,
     F5 |-> <<K_Start, K_End, K_Text, K_Style, K_Effect>>]

\* C23: with N declared fields a dialogue line gives at most N values: the
\* first N-1 tokens fill the first N-1 fields and everything after the
\* (N-1)th comma, commas included, is the final field; with fewer than N
\* tokens the tokens fill the leading fields and the later fields are
\* absent.  Each value is stored without the spaces around it, and the event
\* is stored when its text field is present and not empty.
C23_DialogueFields ==
    (ret.op = "parseEvent" /\ input.conv = "dialogue") =>
        LET fields  == DeclaredFields[input.fmt]
            n       == Len(fields)
            tokens  == TokenCount(input.part)
            present == {i \in 1..n : i <= tokens}
            textAt  == CHOOSE i \in 1..n : fields[i] = K_Text
        IN  /\ ret.value # <<>> <=>
                   (textAt \in present /\ trim(FieldText(input.part, textAt, n)) # <<>>)
            /\ \A e \in Range(ret.value) :
                   /\ DOMAIN e.props = {fields[i] : i \in present} \cup {K_cleanText}
                   /\ \A i \in present : e.props[fields[i]] = trim(FieldText(input.part, i, n))

\* C23 witness: under Start, End, Style, Text the line that ends in
\* "ni,,hao," has been stored with that text, commas included
C23_Witness ==
    /\ ret.op = "parseEvent" /\ input.conv = "dialogue"
    /\ input.fmt = "F4"
    /\ Len(ret.value) = 1
    /\ ret.value[1].props[K_Text] = X_ni \o <<",", ",">> \o X_hao \o <<",">>

\* the store parse builds from the present script when its Events format
\* line declares Start, End, Style, Text
DeclaredCapitalised ==
    parse(FreshStore, ContentOf([script EXCEPT !.fmt = "explicit"])).store

\* the decoded times of stored events and their texts
TimesAndTexts(evs) ==
    [i \in 1..Len(evs) |-> <<evs[i].startTime, evs[i].endTime, evs[i].props[K_cleanText]>>]

\* the track names of a grouping with the times of the events of each
TracksOf(groups) ==
    [g \in 1..Len(groups) |-> <<groups[g].key, TimesAndTexts(groups[g].events)>>]

\* C24: a script whose Events format line declares start, end, style, text in
\* lower case gives the same stored events, the same track grouping in
\* activeEventsByTrack and the same navigableEvents, nextEventTime and
\* prevEventTime results as the same script declaring Start, End, Style, Text.
C24_CaseTolerance ==
    (Published /\ script.isText /\ script.fmt = "lower") =>
        LET ref == DeclaredCapitalised
        IN  /\ TimesAndTexts(events) = TimesAndTexts(ref.events)
            /\ ret.op = "getActiveSubtitlesByStyle" =>
                   TracksOf(ret.value) = TracksOf(getActiveSubtitlesByStyle(ref, ret.t))
            /\ ret.op = "getNavigableEvents" =>
                   TimesAndTexts(ret.value) = TimesAndTexts(getNavigableEvents(ref, ret.style))
            /\ ret.op = "getNextEventTime" => ret.value = getNextEventTime(ref, ret.t)
            /\ ret.op = "getPrevEventTime" => ret.value = getPrevEventTime(ref, ret.t)

\* C25: whenever defined, nextEventTime(t) > t + 0.05 and prevEventTime(t) <
\* t - 0.05; a query made exactly at the start s of a navigable event does
\* not return s.
C25_BoundaryBuffer ==
    /\ (ret.op = "getNextEventTime" /\ ret.value # NoValue) =>
           /\ ret.value > ret.t + 50
           /\ (\E i \in 1..Len(MainNavigable) : MainNavigable[i].startTime = ret.t) => ret.value # ret.t
    /\ (ret.op = "getPrevEventTime" /\ ret.value # NoValue) =>
           /\ ret.value < ret.t - 50
           /\ (\E i \in 1..Len(MainNavigable) : MainNavigable[i].startTime = ret.t) => ret.value # ret.t

\* C25 witness: nextEventTime has been asked at 1.00, the start of the first
\* of three navigable events, and has returned 6.00, the start of the second
C25_Witness ==
    /\ ret.op = "getNextEventTime" /\ ret.t = 1000 /\ ret.value = 6000
    /\ Starts(MainNavigable) = <<1000, 6000, 11000>>

\* the largest decoded end time among the stored events, 0 when there is none
LargestEnd == IF events = <<>> THEN 0 ELSE MaxOf({events[i].endTime : i \in 1..Len(events)})

\* C26: in every state reachable by parse and reset calls, stats().totalEvents
\* is the number of stored events, the reported max end time is the largest
\* decoded end time among them (0 when there are none), and the flag
\* reported by stats() equals isReady(): a successful parse that retained at
\* least one event.
C26_StatsDerived ==
    ret.op = "getStats" =>
        /\ ret.value.totalEvents = Len(events)
        /\ ret.value.duration = LargestEnd
        /\ ret.value.parsed = isReady(Store)

\* C27: for every stored event e of the navigated track with a non-empty
\* text and an end after its start, navigableEvents for that track holds an
\* event n with n.start <= e.start <= n.end, also when another event of the
\* track with the same start precedes e in the store.
C27_NoSentenceLost ==
    (parsed /\ ret.op = "getNavigableEvents") =>
        LET onTrack == validEventsOf(Store, ret.style)
        IN  \A i \in 1..Len(onTrack) :
                onTrack[i].endTime > onTrack[i].startTime =>
                    \E k \in 1..Len(ret.value) :
                        /\ ret.value[k].startTime <= onTrack[i].startTime
                        /\ onTrack[i].startTime <= ret.value[k].endTime

\* the starts of the navigable events of the main track that lie more than
\* the buffer after the position the stepping started from
DueStarts ==
    LET due(e) == e.startTime > watch.t0 + bufferMs
    IN  Starts(SelectSeq(MainNavigable, due))

\* C28: from any position t0, with no subtitle offset, the repeated
\* next-sentence action seeks in turn to every navigable event that starts
\* after t0 + 0.05 s, in increasing order of start and skipping none, and
\* after the last of them nextEventTime returns none.
C28_SteppingComplete ==
    Published =>
        /\ Len(watch.sought) <= Len(DueStarts)
        /\ watch.sought = SubSeq(DueStarts, 1, Len(watch.sought))
        /\ watch.ended => watch.sought = DueStarts

\* C29: onTimeUpdate is never delivered to the parent while a seek is in
\* progress, between the 'seeking' and 'seeked' events, nor during the
\* 500 ms that follow a 'seeked', also when a second seek starts less than
\* 500 ms after the previous one finished.
C29_SeekGuard ==
    (player # Null /\ player.delivered) =>
        /\ ~player.inSeek
        /\ player.sinceSeeked >= ignoreUpdatesMs

PadCalled(fn) == \E i \in 1..Len(pad.calls) : pad.calls[i].fn = fn

\* C30: the hold actions of the gesture trackpad are confined to a held touch.
\* Once a gesture has ended no long-press timer is pending and no rapid-seek
\* interval runs until a new gesture starts; onLoopStart and onRapidSeek are
\* invoked only while a touch is held; and a loop that onLoopStart started is
\* ended by onLoopEnd when the touch ends.  This holds for every interleaving
\* of start, move and end events and timer expiries, two start events with no
\* end between them included.
C30_HoldConfined ==
    pad # Null =>
        /\ ~pad.touchStart => (pad.timeouts = <<>> /\ pad.rapidSeekTimer = Null)
        /\ (PadCalled("onLoopStart") \/ PadCalled("onRapidSeek")) => pad.touchStart
        /\ ~pad.touchStart => ~pad.looping

====
